---- MODULE Spec2Model ----
(***************************************************************************)
(* Model of parse_ncm: the url classifier (utils/url_parser.py), the       *)
(* parse pipeline (services/parser_service.py), the upstream calls it      *)
(* issues (services/api_service.py), and the rate limiter and retrying     *)
(* client of services/network_service.py.                                  *)
(*                                                                         *)
(* A url is a sequence of lexical atoms.  Every literal of the patterns in *)
(* url_parser.py is a whole number of atoms and no atom overlaps another,  *)
(* so matching on atoms is matching on characters.  An atom that only      *)
(* begins with characters of a class (the host "163cn.tv" begins with the  *)
(* digits "163") contributes that head to a group, as the regex would.     *)
(* The alphabet has no upper-case atoms, so re.IGNORECASE is not exercised.*)
(***************************************************************************)
EXTENDS Integers, Sequences, FiniteSets, TLC

VARIABLES
    parsers,      \* UrlParserRegistry._parsers
    regOrder,     \* history: parser classes in the order register() first saw them
    phase,        \* "import" while url_parser.py is being imported, then "serving"
    clsUrl,       \* argument of UrlParserRegistry.parse
    clsResult,    \* its outcome
    clsAgain,     \* the call before it had the same argument
    entry,        \* the public method a caller invoked: "parse" or "resolve"
    argUrl,       \* the url argument of that call
    pc,           \* position of the call
    depth,        \* number of nested ParserService.parse frames below the first
    curUrl,       \* parse: the url argument of the current frame
    original_url, \* parse: local original_url
    final_url,    \* parse: local final_url
    resource_type, \* parse: local resource_type
    resource_id,  \* parse: local resource_id
    resolved_url, \* parse: local resolved_url
    fallback_exc, \* parse: the exception e of the second classification, if any
    outcome,      \* what the call returned or raised
    sent,         \* requests put on the wire, per host
    lastGetUrl,   \* url of the last requests.get
    netFault,     \* transport failure of the last request, None if it succeeded
    domain_counters, \* RateLimiter._domain_counters
    fetched,      \* arguments of the fetch_resource_info calls made
    callLog,      \* upstream operations requested by the running *_detail
    now,          \* time.time(), in ticks
    domain_limits, \* RateLimiter._domain_limits: the last_time of each domain
    acq,          \* per task: the locals of its RateLimiter.acquire frame
    grants,       \* history: the acquisitions granted, in the order of line 142
    get,          \* the locals of the NetworkService.get frame
    loop,         \* the task whose coroutine the event loop's thread is running
    ptask,        \* per task: where its message handler is, and the requests left
    payloads,     \* the running *_detail: ret0, ret1, .. in the order they were returned
    info,         \* get_info: local info, the dict the *_detail returned
    session,      \* NetworkService._session: 0 for None, else an index of sessions
    sessions,     \* history: every ClientSession created, with its closed flag
    session_lock, \* NetworkService._session_lock: the task holding it, or None
    sess,         \* per task: where its get_session call is
    handed,       \* history: what each get_session call found and returned
    mapKind,      \* the mapper applied: the kind of its model
    mapInfo,      \* the dict it was given
    mapResult     \* what it returned or raised

regVars == <<parsers, regOrder, phase, clsUrl, clsResult, clsAgain>>

parseVars ==
    <<entry, argUrl, pc, depth, curUrl, original_url, final_url, resource_type,
      resource_id, resolved_url, fallback_exc, outcome, sent, lastGetUrl,
      netFault, fetched, callLog, payloads, info>>

limVars == <<now, domain_limits, domain_counters, acq, grants>>

getVars == <<get>>

loopVars == <<loop, ptask>>

sessVars == <<session, sessions, session_lock, sess, handed>>

netVars == <<limVars, getVars, loopVars, sessVars>>

mapVars == <<mapKind, mapInfo, mapResult>>

vars == <<regVars, parseVars, netVars, mapVars>>

\* ------------------------------------------------------------------ bounds
\* urls given to the classifier are made of at most MaxSegs segments
MaxSegs == 3
\* frames the interpreter allows below the first parse frame before it raises
\* RecursionError (sys.getrecursionlimit(), scaled down)
RecursionLimit == 7
\* RateLimiter.acquire calls one task makes
MaxCalls == 2
\* ticks the clock runs on after the process has started
MaxTicks == 3
\* the largest max_attempts handed to NetworkService.get
MaxAttempts == 8
\* NetworkService.get_session calls one task makes
MaxGets == 2

\* ------------------------------------------------------------------- atoms
SP == "sp"                       \* one whitespace character
NcmHost == "music.163.com"
ShortHost == "163cn.tv"
Scheme == "https://"
Digits == {"7"}
Words == {"song", "album", "user", "home", "playlist", "artist", "mv", "a"}

\* \d : atoms made of digits only
IsDigitAtom(a) == a \in Digits
\* [A-Za-z0-9] : atoms made of letters and digits only
IsAlnumAtom(a) == a \in Digits \cup Words

InClass(cls, a) == IF cls = "digit" THEN IsDigitAtom(a) ELSE IsAlnumAtom(a)

\* the longest prefix of an atom that lies in the class, for the atoms that
\* are not wholly in it ("" when the atom does not begin with the class)
ClassHead(cls, a) ==
    IF a = ShortHost THEN (IF cls = "digit" THEN "163" ELSE "163cn")
    ELSE IF a = NcmHost /\ cls = "alnum" THEN "music"
    ELSE IF a = Scheme /\ cls = "alnum" THEN "https"
    ELSE ""

\* ------------------------------------------------------------ str methods
RECURSIVE lstrip(_)
lstrip(s) == IF s # <<>> /\ Head(s) = SP THEN lstrip(Tail(s)) ELSE s

RECURSIVE rstrip(_)
rstrip(s) == IF s # <<>> /\ s[Len(s)] = SP THEN rstrip(SubSeq(s, 1, Len(s) - 1)) ELSE s

\* str.strip()
strip(s) == rstrip(lstrip(s))

\* LET x == v IN F(x), with v computed once
Bind(v, F(_)) == CHOOSE y \in { F(x) : x \in {v} } : TRUE

\* `sub in s` for a one-atom substring
Contains(s, a) == \E i \in 1..Len(s) : s[i] = a

\* ------------------------------------------------------------------ regex
\* A compiled pattern  lit (.*)? (t1|t2|..) (class+ | class*)  is the record
\* [lit, any, tails, cls, min]; every PATTERN of url_parser.py has this shape.
LiteralAt(lit, url, i) ==
    /\ i >= 1
    /\ i + Len(lit) - 1 <= Len(url)
    /\ \A k \in 1..Len(lit) : url[i + k - 1] = lit[k]

\* text captured by (class+) or (class*) starting at g, greedy
RECURSIVE GroupAt(_, _, _)
GroupAt(cls, url, g) ==
    IF g > Len(url) THEN <<>>
    ELSE IF InClass(cls, url[g]) THEN <<url[g]>> \o GroupAt(cls, url, g + 1)
    ELSE IF ClassHead(cls, url[g]) # "" THEN <<ClassHead(cls, url[g])>>
    ELSE <<>>

\* the group can match at g
GroupOk(pat, url, g) ==
    \/ pat.min = 0
    \/ g <= Len(url) /\ (InClass(pat.cls, url[g]) \/ ClassHead(pat.cls, url[g]) # "")

\* the alternation matches at j and the group behind it
TailAt(pat, url, j) ==
    \E t \in pat.tails : LiteralAt(t, url, j) /\ GroupOk(pat, url, j + Len(t))

\* where the group starts when the alternation matches at j
GroupStart(pat, url, j) ==
    j + Len(CHOOSE t \in pat.tails :
              LiteralAt(t, url, j) /\ GroupOk(pat, url, j + Len(t)))

\* greedy .* : the last j in from..hi where the rest matches, 0 if there is none
RECURSIVE LastTail(_, _, _, _)
LastTail(pat, url, from, hi) ==
    IF hi < from THEN 0
    ELSE IF TailAt(pat, url, hi) THEN hi
    ELSE LastTail(pat, url, from, hi - 1)

\* where the alternation matches once lit has matched up to from - 1, 0 if nowhere
RestAt(pat, url, from) ==
    IF pat.any THEN LastTail(pat, url, from, Len(url) + 1)
    ELSE IF TailAt(pat, url, from) THEN from
    ELSE 0

\* the leftmost start of a match at or after i, 0 if there is none
RECURSIVE FirstMatch(_, _, _)
FirstMatch(pat, url, i) ==
    IF i > Len(url) THEN 0
    ELSE IF LiteralAt(pat.lit, url, i) /\ RestAt(pat, url, i + Len(pat.lit)) # 0 THEN i
    ELSE FirstMatch(pat, url, i + 1)

NoMatch == [found |-> FALSE, group |-> <<>>]

\* Pattern.search(url): the leftmost start, with .* as long as it can be
Search(pat, url) ==
    IF FirstMatch(pat, url, 1) = 0 THEN NoMatch
    ELSE [found |-> TRUE,
          group |-> GroupAt(pat.cls, url,
                       GroupStart(pat, url,
                          RestAt(pat, url, FirstMatch(pat, url, 1) + Len(pat.lit))))]

\* ---------------------------------------------------------- parser classes
\* r"music\.163\.com.*<path>(?:\?id=|/)(\d+)"
NcmPattern(tails) ==
    [lit |-> <<NcmHost>>, any |-> TRUE, tails |-> tails, cls |-> "digit", min |-> 1]

IdOrSlash(word) == { <<"/", word, "?id=">>, <<"/", word, "/">> }

\* mutant: the pattern without the /song/<id> alternative
SongParser_query_only ==
    [name |-> "SongParser", PRIORITY |-> 10, RESOURCE_TYPE |-> "SONG",
     PATTERN |-> NcmPattern({ <<"/", "song", "?id=">> })]

SongParser ==
    [name |-> "SongParser", PRIORITY |-> 10, RESOURCE_TYPE |-> "SONG",
     PATTERN |-> NcmPattern(IdOrSlash("song"))]

AlbumParser ==
    [name |-> "AlbumParser", PRIORITY |-> 10, RESOURCE_TYPE |-> "ALBUM",
     PATTERN |-> NcmPattern(IdOrSlash("album"))]

\* r"music\.163\.com.*/user(?:/home|)\?id=(\d+)"
UserParser ==
    [name |-> "UserParser", PRIORITY |-> 10, RESOURCE_TYPE |-> "USER",
     PATTERN |-> NcmPattern({ <<"/", "user", "/", "home", "?id=">>,
                              <<"/", "user", "?id=">> })]

PlaylistParser ==
    [name |-> "PlaylistParser", PRIORITY |-> 10, RESOURCE_TYPE |-> "PLAYLIST",
     PATTERN |-> NcmPattern(IdOrSlash("playlist"))]

\* r"music\.163\.com.*/artist\?id=(\d+)"
ArtistParser ==
    [name |-> "ArtistParser", PRIORITY |-> 10, RESOURCE_TYPE |-> "ARTIST",
     PATTERN |-> NcmPattern({ <<"/", "artist", "?id=">> })]

MVParser ==
    [name |-> "MVParser", PRIORITY |-> 10, RESOURCE_TYPE |-> "MV",
     PATTERN |-> NcmPattern(IdOrSlash("mv"))]

\* r"163cn\.tv/([A-Za-z0-9]+)"
ShortUrlParser ==
    [name |-> "ShortUrlParser", PRIORITY |-> 10, RESOURCE_TYPE |-> "SHORT_URL",
     PATTERN |-> [lit |-> <<ShortHost, "/">>, any |-> FALSE, tails |-> {<<>>},
                  cls |-> "alnum", min |-> 1]]

\* the register() calls at the end of url_parser.py, in source order
BuiltinParsers ==
    <<SongParser, AlbumParser, UserParser, PlaylistParser, ArtistParser,
      MVParser, ShortUrlParser>>

\* Further RegexUrlParser subclasses a plugin may pass to register(): inputs
\* of register, chosen so that precedence, ties and an empty id all occur.
\*   r"music\.163\.com.*/(\d+)"  ahead of the built-in parsers
PluginNumberParser ==
    [name |-> "PluginNumberParser", PRIORITY |-> 5, RESOURCE_TYPE |-> "USER",
     PATTERN |-> NcmPattern({ <<"/">> })]

\*   r"\?id=(\d*)"  same PRIORITY as the built-in parsers; the id may be empty
PluginQueryParser ==
    [name |-> "PluginQueryParser", PRIORITY |-> 10, RESOURCE_TYPE |-> "MV",
     PATTERN |-> [lit |-> <<"?id=">>, any |-> FALSE, tails |-> {<<>>},
                  cls |-> "digit", min |-> 0]]

PluginParsers == {PluginNumberParser, PluginQueryParser}

\* --------------------------------------------------------------- outcomes
None == "None"
NoId == <<>>
NotCalled == [tag |-> "none", kind |-> None, id |-> NoId, exc |-> None]
Return(kind, id) == [tag |-> "ok", kind |-> kind, id |-> id, exc |-> None]
Raise(exc) == [tag |-> "raise", kind |-> None, id |-> NoId, exc |-> exc]

\* ---------------------------------------------------------- RegexUrlParser
RegexUrlParser_can_parse(p, url) == Search(p.PATTERN, url).found

\* mutant: parse() without the check of the extracted id
RegexUrlParser_parse_unchecked_id(p, url) ==
    Bind(Search(p.PATTERN, url),
         LAMBDA match :
             IF ~match.found THEN Raise("UrlParseError")
             ELSE Return(p.RESOURCE_TYPE, match.group))

RegexUrlParser_parse(p, url) ==
    IF p.RESOURCE_TYPE = None THEN Raise("ValueError")
    ELSE Bind(Search(p.PATTERN, url),
              LAMBDA match :
                  IF ~match.found THEN Raise("UrlParseError")
                  ELSE IF match.group = <<>> THEN Raise("UrlParseError")
                  ELSE Return(p.RESOURCE_TYPE, match.group))

\* ------------------------------------------------------- UrlParserRegistry
InList(x, s) == \E i \in 1..Len(s) : s[i] = x

\* list.sort(key=PRIORITY) is stable: x goes behind every element whose key
\* is not larger than its own
RECURSIVE InsertByPriority(_, _)
InsertByPriority(x, s) ==
    IF s = <<>> THEN <<x>>
    ELSE IF Head(s).PRIORITY <= x.PRIORITY
         THEN <<Head(s)>> \o InsertByPriority(x, Tail(s))
         ELSE <<x>> \o s

RECURSIVE SortByPriority(_)
SortByPriority(s) ==
    IF s = <<>> THEN <<>>
    ELSE InsertByPriority(s[Len(s)], SortByPriority(SubSeq(s, 1, Len(s) - 1)))

\* mutant: register() without the membership test
UrlParserRegistry_register_again(list, p) == SortByPriority(Append(list, p))

\* mutant: register() without the sort
UrlParserRegistry_register_unsorted(list, p) ==
    IF InList(p, list) THEN list ELSE Append(list, p)

UrlParserRegistry_register(list, p) ==
    IF InList(p, list) THEN list ELSE SortByPriority(Append(list, p))

RECURSIVE RegisterAll(_, _)
RegisterAll(list, ps) ==
    IF ps = <<>> THEN list
    ELSE RegisterAll(UrlParserRegistry_register(list, Head(ps)), Tail(ps))

\* the registry once url_parser.py has run its seven register() calls
ImportedParsers == RegisterAll(<<>>, BuiltinParsers)

\* get_parser's None
NoParser == [name |-> None, RESOURCE_TYPE |-> None]

RECURSIVE UrlParserRegistry_get_parser(_, _)
UrlParserRegistry_get_parser(list, url) ==
    IF list = <<>> THEN NoParser
    ELSE IF RegexUrlParser_can_parse(Head(list), url) THEN Head(list)
    ELSE UrlParserRegistry_get_parser(Tail(list), url)

\* the try block of UrlParserRegistry.parse
ParseWith(parser, url) ==
    Bind(RegexUrlParser_parse(parser, url),
         LAMBDA r :
             IF r.tag = "raise" /\ r.exc \notin {"UrlParseError", "UnsupportedUrlError"}
             THEN Raise("UrlParseError")
             ELSE r)

UrlParserRegistry_parse(list, url) ==
    Bind(UrlParserRegistry_get_parser(list, url),
         LAMBDA parser :
             IF parser.name = None THEN Raise("UnsupportedUrlError")
             ELSE ParseWith(parser, url))

\* ------------------------------------------------------------------ inputs
\* urls are built from these pieces, at most MaxSegs of them
Segments ==
    { <<NcmHost>>, <<"/", "song", "/", "7">>, <<"/", "song", "?id=">>,
      <<"/", "album", "/", "7">>, <<"7">>, <<ShortHost, "/">> }

RECURSIVE Flatten(_)
Flatten(ss) == IF ss = <<>> THEN <<>> ELSE Head(ss) \o Flatten(Tail(ss))

Urls == { Flatten(ss) : ss \in UNION { [1..n -> Segments] : n \in 0..MaxSegs } }

\* ------------------------------------------------------------- exceptions
\* an exception object: its class, its cause (<<>> or <<the cause>>) and its
\* context mapping, a set of <<key, value>> pairs
Exc(type, cause, context) == [type |-> type, cause |-> cause, context |-> context]
NoExc == Exc(None, <<>>, {})

NoOutcome == [tag |-> "none", value |-> <<>>, exc |-> NoExc]
Returned(v) == [tag |-> "return", value |-> v, exc |-> NoExc]
Raised(e) == [tag |-> "raise", value |-> <<>>, exc |-> e]

\* what requests.get / requests.post and raise_for_status() raise
TransportFailures ==
    {"requests.ConnectionError", "requests.Timeout", "requests.HTTPError"}

\* ------------------------------------------------------------- environment
SongUrl == <<Scheme, NcmHost, "/", "#", "/", "song", "?id=", "7">>
AlbumUrl == <<Scheme, NcmHost, "/", "#", "/", "album", "/", "7", "7">>
ShortUrlA == <<ShortHost, "/", "a">>
ShortUrlB == <<Scheme, ShortHost, "/", "7">>
OtherPage == <<Scheme, NcmHost, "/", "a">>

\* urls a caller may hand to parse or resolve_short_url
InputUrls ==
    { SongUrl, <<SP>> \o SongUrl \o <<SP>>, ShortUrlA, <<SP>> \o ShortUrlA,
      ShortUrlB, OtherPage, <<ShortHost>>,
      <<NcmHost, "/", "song", "/", "7", SP, ShortHost>> }

\* urls a redirect chain may end at (response.url)
RedirectTargets ==
    { SongUrl, AlbumUrl, <<Scheme>> \o ShortUrlA, ShortUrlB, OtherPage }

Hosts == {NcmHost, ShortHost, "other"}

\* url.startswith(("http://", "https://"))
HasScheme(url) == url # <<>> /\ Head(url) = Scheme

\* the url NcmApiService.resolve_short_url requests
RequestUrl(url) == IF HasScheme(url) THEN url ELSE <<Scheme>> \o url

\* host a request for RequestUrl(url) goes to
HostOf(url) ==
    LET u == RequestUrl(url)
    IN IF Len(u) >= 2 /\ u[2] \in {NcmHost, ShortHost} THEN u[2] ELSE "other"

\* ----------------------------------------------------------- NcmApiService
\* the timeout argument of requests.get(url = url) and of requests.post(...):
\* there is none
RequestsTimeout == None

\* an upstream that never answers: requests raises Timeout once the timeout it
\* was given is over, and waits without end when it was given none
SilentUpstream(timeout) == IF timeout = None THEN "hang" ELSE "requests.Timeout"

\* resolve_short_url(url): one requests.get; every outcome the network allows
NcmApiService_resolve_short_url(url) ==
    { [tag |-> "return", value |-> t, exc |-> NoExc, get |-> <<RequestUrl(url)>>,
       fault |-> None] : t \in RedirectTargets }
    \cup
    { [tag |-> "raise", value |-> <<>>, exc |-> Exc(f, <<>>, {}),
       get |-> <<RequestUrl(url)>>, fault |-> f] : f \in TransportFailures }
    \cup
    { [tag |-> "hang", value |-> <<>>, exc |-> NoExc, get |-> <<RequestUrl(url)>>,
       fault |-> None] : f \in {SilentUpstream(RequestsTimeout)} \ TransportFailures }

\* the *_detail call plans: upstream operations in the order they are requested
CallPlan(kind) ==
    CASE kind = "SONG" -> <<"song_detail", "commentInfo", "lyric", "comments">>
      [] kind = "ALBUM" -> <<"album_detail", "commentInfo", "comments">>
      [] kind = "USER" -> <<"user_detail">>
      [] kind = "PLAYLIST" -> <<"playlist_detail", "commentInfo", "comments">>
      [] kind = "ARTIST" -> <<"artist_detail">>
      [] kind = "MV" -> <<"mv_detail", "commentInfo", "comments">>
      [] OTHER -> <<>>

\* ------------------------------------------------------------------ dicts
\* A dict is a set of <<key, value>> pairs with one pair per key.  A value of
\* a response is a record: the call it came from, whether it is JSON null,
\* the keys it holds when it is a mapping, and its text when it is a string.
Keys(d) == { kv[1] : kv \in d }
Lookup(d, k) == (CHOOSE kv \in d : kv[1] = k)[2]

Val(op) == [from |-> op, null |-> FALSE, sub |-> {}, text |-> ""]
NullVal(op) == [from |-> op, null |-> TRUE, sub |-> {}, text |-> ""]
BoxVal(op, keys) == [from |-> op, null |-> FALSE, sub |-> keys, text |-> ""]
TextVal(op, text) == [from |-> op, null |-> FALSE, sub |-> {}, text |-> text]

\* a dict of op's answer with the given keys
DictOf(op, keys) == { <<k, Val(op)>> : k \in keys }

\* d without the key k
Without(d, k) == { kv \in d : kv[1] # k }

\* mutant: the value of the earlier dict is kept
Merge_keep_first(a, b) == a \cup { kv \in b : kv[1] \notin Keys(a) }

\* { **a, **b }
Merge(a, b) == { kv \in a : kv[1] \notin Keys(b) } \cup b

\* ------------------------------------------------------- upstream responses
SongKeys == {"id", "name", "ar", "al", "publishTime", "dt", "tns", "alia"}
AlbumKeys == {"id", "name", "artists", "picUrl", "description", "publishTime"}
ProfileKeys ==
    {"userId", "nickname", "createTime", "avatarUrl", "birthday", "signature",
     "followeds", "follows", "eventCount", "playlistCount"}
PlaylistKeys ==
    {"id", "name", "createTime", "coverImgUrl", "playCount", "subscribedCount",
     "description", "tags", "commentCount", "shareCount", "creator", "tracks",
     "trackIds"}
ArtistKeys ==
    {"id", "name", "picUrl", "alias", "briefDesc", "musicSize", "albumSize", "mvSize"}
MVKeys ==
    {"id", "name", "desc", "cover", "artists", "duration", "publishTime",
     "playCount", "subCount", "commentCount", "shareCount"}

ThreadText == "R_SO_4_7"

\* What a *_detail keeps of the answer to one upstream operation when the
\* answer is complete: ret0 of song_detail is response["songs"][0], ret1 is
\* response["data"][0], the others are the whole body.
FullResponse(op) ==
    CASE op = "song_detail" -> DictOf(op, SongKeys)
      [] op = "commentInfo" ->
           DictOf(op, {"commentCount", "shareCount"})
             \cup {<<"threadId", TextVal(op, ThreadText)>>}
      [] op = "lyric" -> DictOf(op, {"code", "lrc", "lyricUser", "transUser"})
      [] op = "comments" -> DictOf(op, {"code", "hotComments", "comments"})
      [] op = "album_detail" ->
           DictOf(op, {"code", "songs"}) \cup {<<"album", BoxVal(op, AlbumKeys)>>}
      [] op = "user_detail" ->
           {<<"code", Val(op)>>, <<"profile", BoxVal(op, ProfileKeys)>>}
      [] op = "playlist_detail" ->
           {<<"code", Val(op)>>, <<"playlist", BoxVal(op, PlaylistKeys)>>}
      [] op = "artist_detail" ->
           {<<"code", Val(op)>>, <<"hotSongs", Val(op)>>,
            <<"artist", BoxVal(op, ArtistKeys)>>}
      [] op = "mv_detail" ->
           {<<"code", Val(op)>>, <<"data", BoxVal(op, MVKeys)>>}

\* d with the value of key k replaced by null
Nulled(d, k) == Without(d, k) \cup {<<k, NullVal(Lookup(d, k).from)>>}

\* d with the key k taken out of its nested dict box
WithoutSub(d, box, k) ==
    Without(d, box) \cup {<<box, [Lookup(d, box) EXCEPT !.sub = @ \ {k}]>>}

\* the answers the upstream may give to an operation: the complete one, and
\* answers in which a key is absent or null
Responses(op) ==
    {FullResponse(op)} \cup
    ( CASE op = "song_detail" ->
             { Without(FullResponse(op), "name"), Nulled(FullResponse(op), "dt") }
        [] op = "commentInfo" ->
             { Without(FullResponse(op), "threadId"),
               Without(FullResponse(op), "commentCount") }
        [] op = "lyric" -> { DictOf(op, {"code", "lrc"}) }
        [] op = "comments" -> { DictOf(op, {"code", "message"}), {} }
        [] op = "album_detail" ->
             { WithoutSub(FullResponse(op), "album", "picUrl") }
        [] OTHER -> {} )

\* ---------------------------------------------------------------- *_detail
\* the dicts of { **ret0, **ret1, .. } in the return statement of each
\* *_detail, named by the operation that produced them
MergeOrder(kind) ==
    CASE kind = "SONG" -> <<"song_detail", "commentInfo", "lyric", "comments">>
      [] kind = "ALBUM" -> <<"album_detail", "commentInfo", "comments">>
      [] kind = "USER" -> <<"user_detail">>
      [] kind = "PLAYLIST" -> <<"playlist_detail", "commentInfo", "comments">>
      [] kind = "ARTIST" -> <<"artist_detail">>
      [] kind = "MV" -> <<"mv_detail", "commentInfo", "comments">>
      [] OTHER -> <<>>

\* the dict the operation op returned, among the returned ones rets
RetOf(rets, op) == (CHOOSE r \in { rets[i] : i \in 1..Len(rets) } : r.op = op).ret

RECURSIVE MergeAll(_, _)
MergeAll(rets, ops) ==
    IF ops = <<>> THEN {}
    ELSE Merge(MergeAll(rets, SubSeq(ops, 1, Len(ops) - 1)), RetOf(rets, ops[Len(ops)]))

\* the return value of the *_detail of the kind
DetailReturn(kind, rets) == MergeAll(rets, MergeOrder(kind))

\* mutant: the thread id is not looked up
ThreadIdOf_empty(ret1) == ""

\* mutant: a placeholder stands in for a thread id that is absent
ThreadIdOf_placeholder(ret1) ==
    IF "threadId" \in Keys(ret1) THEN Lookup(ret1, "threadId").text ELSE "0"

\* threadId = ret1.get("threadId", "")
ThreadIdOf(ret1) ==
    IF "threadId" \in Keys(ret1) THEN Lookup(ret1, "threadId").text ELSE ""

\* the argument the operation is requested with: the thread id for the
\* comment thread, the resource id for every other
CallArg(op, id, rets) ==
    IF op = "comments" THEN <<ThreadIdOf(RetOf(rets, "commentInfo"))>> ELSE id

\* ------------------------------------------------------------ _map_*_to_model
\* one keyword argument of the model constructor: the field, the dict it is
\* read from (box: None for info itself, else the key of the nested dict),
\* the key, the coercion, and whether it is read with .get(key, default)
Field(name, box, key, type, default) ==
    [name |-> name, box |-> box, key |-> key, type |-> type, default |-> default]

Req(box, key, type) == Field(key, box, key, type, FALSE)
Opt(box, key, type) == Field(key, box, key, type, TRUE)

\* the nested dict each mapper unpacks first: dict(info["album"]) ..
BoxOf(kind) ==
    CASE kind = "SONG" -> None
      [] kind = "ALBUM" -> "album"
      [] kind = "USER" -> "profile"
      [] kind = "PLAYLIST" -> "playlist"
      [] kind = "ARTIST" -> "artist"
      [] kind = "MV" -> "data"

\* the keyword arguments of each mapper, in source order
FieldsOf(kind) ==
    CASE kind = "SONG" ->
           << Req(None, "id", "str"), Req(None, "name", "str"), Req(None, "ar", "list"),
              Req(None, "al", "dict"), Req(None, "publishTime", "int"),
              Req(None, "dt", "int"), Req(None, "commentCount", "int"),
              Req(None, "shareCount", "int"), Opt(None, "lyricUser", "dict"),
              Opt(None, "transUser", "dict"), Opt(None, "tns", "list"),
              Opt(None, "alia", "list"), Opt(None, "hotComments", "list") >>
      [] kind = "ALBUM" ->
           << Req("album", "id", "str"), Req("album", "name", "str"),
              Req("album", "artists", "list"), Req("album", "picUrl", "str"),
              Req("album", "description", "str"), Req("album", "publishTime", "int"),
              Req(None, "commentCount", "int"), Req(None, "shareCount", "int"),
              Req(None, "songs", "list"), Opt(None, "hotComments", "list") >>
      [] kind = "USER" ->
           << Field("id", "profile", "userId", "str", FALSE),
              Field("name", "profile", "nickname", "str", FALSE),
              Opt("profile", "createTime", "int"), Req("profile", "avatarUrl", "str"),
              Opt("profile", "birthday", "int"), Req("profile", "signature", "str"),
              Req("profile", "followeds", "int"), Req("profile", "follows", "int"),
              Req("profile", "eventCount", "int"), Req("profile", "playlistCount", "int") >>
      [] kind = "PLAYLIST" ->
           << Req("playlist", "id", "str"), Req("playlist", "name", "str"),
              Req("playlist", "createTime", "int"), Req("playlist", "coverImgUrl", "str"),
              Req("playlist", "playCount", "int"),
              Req("playlist", "subscribedCount", "int"),
              Req("playlist", "description", "str"), Req("playlist", "tags", "list"),
              Req("playlist", "commentCount", "int"), Req("playlist", "shareCount", "int"),
              Req("playlist", "creator", "dict"), Req("playlist", "tracks", "list"),
              Req("playlist", "trackIds", "list"), Opt(None, "hotComments", "list") >>
      [] kind = "ARTIST" ->
           << Req("artist", "id", "str"), Req("artist", "name", "str"),
              Req("artist", "picUrl", "str"), Req("artist", "alias", "list"),
              Req("artist", "briefDesc", "str"), Req("artist", "musicSize", "int"),
              Req("artist", "albumSize", "int"), Req("artist", "mvSize", "int"),
              Req(None, "hotSongs", "list") >>
      [] kind = "MV" ->
           << Req("data", "id", "str"), Req("data", "name", "str"),
              Req("data", "desc", "str"), Req("data", "cover", "str"),
              Req("data", "artists", "list"), Req("data", "duration", "int"),
              Req("data", "publishTime", "str"), Req("data", "playCount", "int"),
              Req("data", "subCount", "int"), Req("data", "commentCount", "int"),
              Req("data", "shareCount", "int"), Req(None, "hotComments", "list") >>

NoError == ""

\* no mapper has been applied
NotMapped == [tag |-> "none", exc |-> NoError, model |-> {}]

\* x = dict(info[box]): KeyError when the key is absent, TypeError for null
BoxError(kind, d) ==
    IF BoxOf(kind) = None THEN NoError
    ELSE IF BoxOf(kind) \notin Keys(d) THEN "KeyError"
    ELSE IF Lookup(d, BoxOf(kind)).null THEN "TypeError"
    ELSE NoError

\* the field's key is in the dict it is read from
HasKey(f, d) ==
    IF f.box = None THEN f.key \in Keys(d) ELSE f.key \in Lookup(d, f.box).sub

\* mutant: every key is read with .get(key, default)
FieldError_get(f, d) ==
    IF ~HasKey(f, d) THEN NoError
    ELSE IF f.box = None /\ Lookup(d, f.key).null /\ f.type # "str" THEN "TypeError"
    ELSE NoError

\* type(d[key]) or type(d.get(key, default)): KeyError for an absent key read
\* with [], TypeError for int(None), list(None), dict(None); str(None) is "None"
FieldError(f, d) ==
    IF ~HasKey(f, d) THEN (IF f.default THEN NoError ELSE "KeyError")
    ELSE IF f.box = None /\ Lookup(d, f.key).null /\ f.type # "str" THEN "TypeError"
    ELSE NoError

\* where the value of a field of the model comes from: the call that answered
\* it, or the default of .get
FieldSource(f, d) ==
    IF ~HasKey(f, d) THEN "default"
    ELSE IF f.box = None THEN Lookup(d, f.key).from
    ELSE Lookup(d, f.box).from

\* the first keyword argument whose evaluation raises, 0 if none does
FirstFailing(fs, d) ==
    CHOOSE i \in 0..Len(fs) :
        /\ i = 0 \/ FieldError(fs[i], d) # NoError
        /\ \A k \in 1..(i - 1) : FieldError(fs[k], d) = NoError
        /\ i = 0 => \A k \in 1..Len(fs) : FieldError(fs[k], d) = NoError

\* model_func(info): the model, or the exception of the first failing step
MapToModel(kind, d) ==
    IF BoxError(kind, d) # NoError
    THEN [tag |-> "raise", exc |-> BoxError(kind, d), model |-> {}]
    ELSE Bind(FirstFailing(FieldsOf(kind), d),
              LAMBDA i :
                  IF i # 0
                  THEN [tag |-> "raise", exc |-> FieldError(FieldsOf(kind)[i], d),
                        model |-> {}]
                  ELSE [tag |-> "ok", exc |-> NoError,
                        model |-> { <<FieldsOf(kind)[k].name,
                                      FieldSource(FieldsOf(kind)[k], d)>> :
                                    k \in 1..Len(FieldsOf(kind)) }])

\* mutant: the exception is wrapped without the id
GetInfoError_no_context(id, e) == Exc("NcmResponseError", <<e>>, {})

\* what NcmApiService.request and the subscripts of its result raise
UpstreamFailures == TransportFailures \cup {"JSONDecodeError", "KeyError", "IndexError"}

\* get_info's except clause
GetInfoError(id, e) == Exc("NcmResponseError", <<e>>, {<<"id", id>>})

\* ----------------------------------------------------------- ParserService
\* mutant: resolve_short_url without the test for the short-link host
ParserService_resolve_short_url_always(url) ==
    NcmApiService_resolve_short_url(strip(url))

\* resolve_short_url(url): the outcomes of one call
ParserService_resolve_short_url(url) ==
    LET original == strip(url)
    IN IF Contains(original, ShortHost)
       THEN { IF o.tag = "raise" /\ o.exc.type = "ShortUrlError"
              THEN [o EXCEPT !.tag = "return", !.value = original, !.exc = NoExc]
              ELSE o : o \in NcmApiService_resolve_short_url(original) }
       ELSE { [tag |-> "return", value |-> original, exc |-> NoExc, get |-> <<>>,
               fault |-> None] }

\* mutant: the second classification error raised again as it is
FallbackError_reraise(original, final, e) == e

\* the UrlParseError parse raises when both classifications failed
FallbackError(original, final, e) ==
    Exc("UrlParseError", <<e>>,
        {<<"original_url", original>>, <<"final_url", final>>})

\* mutant: no second classification, the first error is raised again
ClassifyWithFallback_first_only(list, original, final) ==
    Bind(UrlParserRegistry_parse(list, final),
         LAMBDA r1 :
             IF r1.tag = "ok"
             THEN [tag |-> "ok", kind |-> r1.kind, id |-> r1.id, exc |-> NoExc,
                   second |-> <<>>]
             ELSE [tag |-> "raise", kind |-> None, id |-> NoId,
                   exc |-> Exc(r1.exc, <<>>, {}), second |-> <<>>])

\* mutant: original_url is classified, final_url is never looked at
ClassifyWithFallback_original_only(list, original, final) ==
    Bind(UrlParserRegistry_parse(list, original),
         LAMBDA r1 :
             IF r1.tag = "ok"
             THEN [tag |-> "ok", kind |-> r1.kind, id |-> r1.id, exc |-> NoExc,
                   second |-> <<>>]
             ELSE [tag |-> "raise", kind |-> None, id |-> NoId,
                   exc |-> Exc(r1.exc, <<>>, {}), second |-> <<>>])

\* mutant: the fallback is tried whether or not final_url is original_url
ClassifyWithFallback_always_second(list, original, final) ==
    Bind(UrlParserRegistry_parse(list, final),
         LAMBDA r1 :
             IF r1.tag = "ok"
             THEN [tag |-> "ok", kind |-> r1.kind, id |-> r1.id, exc |-> NoExc,
                   second |-> <<>>]
             ELSE Bind(UrlParserRegistry_parse(list, original),
                       LAMBDA r2 :
                           IF r2.tag = "ok"
                           THEN [tag |-> "ok", kind |-> r2.kind, id |-> r2.id,
                                 exc |-> NoExc, second |-> <<>>]
                           ELSE [tag |-> "raise", kind |-> None, id |-> NoId,
                                 exc |-> FallbackError(original, final,
                                                       Exc(r2.exc, <<>>, {})),
                                 second |-> <<Exc(r2.exc, <<>>, {})>>]))

\* parse, lines 68-97: classification of final_url with the fallback to
\* original_url; second is the exception of the second attempt
ClassifyWithFallback(list, original, final) ==
    Bind(UrlParserRegistry_parse(list, final),
         LAMBDA r1 :
             IF r1.tag = "ok"
             THEN [tag |-> "ok", kind |-> r1.kind, id |-> r1.id, exc |-> NoExc,
                   second |-> <<>>]
             ELSE IF final # original
             THEN Bind(UrlParserRegistry_parse(list, original),
                       LAMBDA r2 :
                           IF r2.tag = "ok"
                           THEN [tag |-> "ok", kind |-> r2.kind, id |-> r2.id,
                                 exc |-> NoExc, second |-> <<>>]
                           ELSE [tag |-> "raise", kind |-> None, id |-> NoId,
                                 exc |-> FallbackError(original, final,
                                                       Exc(r2.exc, <<>>, {})),
                                 second |-> <<Exc(r2.exc, <<>>, {})>>])
             ELSE [tag |-> "raise", kind |-> None, id |-> NoId,
                   exc |-> Exc(r1.exc, <<>>, {}), second |-> <<>>])

\* mutant: the re-resolved url compared with nothing
NoProgress_never(resolved, original) == FALSE

\* mutant: only an empty re-resolved url counts as no progress
NoProgress_empty(resolved, original) == resolved = <<>>

\* parse, line 101: the re-resolution made no progress
NoProgress(resolved, original) == resolved = original

ShortUrlError(original) == Exc("ShortUrlError", <<>>, {<<"url", original>>})

\* mutant: no kind is taken for a short link
IsShortLink_never(kind) == FALSE

\* parse, line 99: resource_type == ResourceType.SHORT_URL
IsShortLink(kind) == kind = "SHORT_URL"

\* ------------------------------------------------------------------- state
NoUrl == <<>>

IdleCall ==
    /\ entry = None
    /\ argUrl = NoUrl
    /\ pc = "idle"
    /\ depth = 0
    /\ curUrl = NoUrl
    /\ original_url = NoUrl
    /\ final_url = NoUrl
    /\ resource_type = None
    /\ resource_id = NoId
    /\ resolved_url = NoUrl
    /\ fallback_exc = <<>>
    /\ outcome = NoOutcome
    /\ sent = [h \in Hosts |-> 0]
    /\ lastGetUrl = NoUrl
    /\ netFault = None
    /\ fetched = <<>>
    /\ callLog = <<>>
    /\ payloads = <<>>
    /\ info = {}
    /\ mapKind = None
    /\ mapInfo = {}
    /\ mapResult = NotMapped

\* the effect of one requests call on the wire
Wire(o) ==
    /\ sent' = IF o.get = <<>> THEN sent
               ELSE [sent EXCEPT ![HostOf(o.get[1])] = @ + 1]
    /\ lastGetUrl' = IF o.get = <<>> THEN lastGetUrl ELSE o.get[1]
    /\ netFault' = IF o.get = <<>> THEN netFault ELSE o.fault

\* -------------------------------------------------------------- RateLimiter
\* time.time() is counted in ticks of a tenth of a second
TicksPerSecond == 10

\* _DEFAULT_INTERVAL = 0.2, in ticks
DEFAULT_INTERVAL == 2

\* time.time() when the process starts: more than an interval after the epoch
ProcessStart == DEFAULT_INTERVAL

Max(a, b) == IF a >= b THEN a ELSE b
Min(a, b) == IF a <= b THEN a ELSE b

\* the index of the last a in s, 0 if there is none
LastIndexOf(s, a) ==
    CHOOSE i \in 0..Len(s) :
        /\ i = 0 \/ s[i] = a
        /\ \A k \in (i + 1)..Len(s) : s[k] # a

\* the index of the first a in s, Len(s) + 1 if there is none
FirstIndexOf(s, a) ==
    CHOOSE i \in 1..(Len(s) + 1) :
        /\ i = Len(s) + 1 \/ s[i] = a
        /\ \A k \in 1..(i - 1) : s[k] # a

\* mutant: one key for every url
RateLimiter_domain_shared(url) == NcmHost

\* url.split("//")[-1].split("/")[0]; the only "//" of a url is in its scheme
RateLimiter_domain(url) ==
    Bind(SubSeq(url, LastIndexOf(url, Scheme) + 1, Len(url)),
         LAMBDA rest :
             Bind(SubSeq(rest, 1, FirstIndexOf(rest, "/") - 1),
                  LAMBDA d : IF Len(d) = 1 /\ d[1] \in Hosts THEN d[1] ELSE "other"))

\* cls._domain_rate_limits.get(domain, cls._DEFAULT_INTERVAL): the dict is empty
RateLimiter_interval(domain) == DEFAULT_INTERVAL

\* mutant: acquire never waits
RateLimiter_wait_time_none(last_time, interval, current_time) == 0

\* line 136: wait_time = max(0, last_time + interval - current_time)
RateLimiter_wait_time(last_time, interval, current_time) ==
    Max(0, last_time + interval - current_time)

Tasks == {"t1", "t2"}

\* urls handed to RateLimiter.acquire
AcquireUrls == { <<Scheme, NcmHost, "/", "song">>, <<ShortHost, "/", "a">> }

\* a task that is not inside acquire
NoFrame(calls) ==
    [pc |-> "idle", url |-> NoUrl, domain |-> None, last_time |-> 0,
     current_time |-> 0, wait_time |-> 0, calls |-> calls]

\* the locals of an acquire frame after line 136
Frame(url, calls) ==
    Bind(RateLimiter_domain(url),
         LAMBDA domain :
             [pc |-> "sleeping", url |-> url, domain |-> domain,
              last_time |-> domain_limits[domain], current_time |-> now,
              wait_time |-> RateLimiter_wait_time(domain_limits[domain],
                                                  RateLimiter_interval(domain), now),
              calls |-> calls])

\* lines 142-150, reached at time at: record the timestamp, count the
\* request, return wait_time
GrantAt(t, f, at) ==
    /\ domain_limits' = [domain_limits EXCEPT ![f.domain] = at]
    /\ domain_counters' = [domain_counters EXCEPT ![f.domain] = @ + 1]
    /\ grants' = Append(grants, [task |-> t, url |-> f.url, domain |-> f.domain,
                                 last_time |-> f.last_time,
                                 current_time |-> f.current_time,
                                 wait_time |-> f.wait_time, at |-> at])

Grant(t, f) == GrantAt(t, f, now)

\* ----------------------------------------------------------- NetworkService
\* no NetworkService.get frame
NoGet ==
    [pc |-> "idle", url |-> NoUrl, use_rate_limit |-> FALSE, max_attempts |-> 0,
     attempt |-> 0, sends |-> 0, acquires |-> 0,
     answers |-> <<>>,     \* history: <<status, Retry-After header>> of each attempt
     slept |-> <<>>,       \* history: the durations of the sleeps between attempts

     outcome |-> NoOutcome, from |-> <<>>]

\* a task whose handler has not been started
NewTask == [pc |-> "new", calls |-> <<>>]

\* a task that is not inside get_session
NoSessionCall(calls) == [pc |-> "idle", calls |-> calls]

\* mutant: a session is created on every call
NeedsSession_always(s, created) == TRUE

\* line 164: cls._session is None or cls._session.closed
NeedsSession(s, created) == s = 0 \/ created[s].closed

\* aiohttp.ClientSession(...): a new session, open
ClientSession(t) == [closed |-> FALSE, by |-> t]

IdleNet ==
    /\ now = ProcessStart
    /\ domain_limits = [h \in Hosts |-> 0]
    /\ domain_counters = [h \in Hosts |-> 0]
    /\ acq = [t \in Tasks |-> NoFrame(0)]
    /\ grants = <<>>
    /\ get = NoGet
    /\ loop = None
    /\ ptask = [t \in Tasks |-> NewTask]
    /\ session = 0
    /\ sessions = <<>>
    /\ session_lock = None
    /\ sess = [t \in Tasks |-> NoSessionCall(0)]
    /\ handed = <<>>

\* task t awaits RateLimiter.acquire(url): lines 130-138, and with nothing to
\* wait for the rest of the call too, since no await lets another task in
AcquireCall(t, url) ==
    /\ acq[t].pc = "idle"
    /\ acq[t].calls < MaxCalls
    /\ \E f \in {Frame(url, acq[t].calls + 1)} :
         IF f.wait_time > 0
         THEN /\ acq' = [acq EXCEPT ![t] = f]
              /\ UNCHANGED <<domain_limits, domain_counters, grants>>
         ELSE /\ acq' = [acq EXCEPT ![t] = NoFrame(f.calls)]
              /\ Grant(t, f)
    /\ UNCHANGED <<regVars, mapVars, parseVars, now, getVars, loopVars, sessVars>>

\* asyncio.sleep(wait_time) is over, not earlier than asked: lines 142-150
AcquireWake(t) ==
    /\ acq[t].pc = "sleeping"
    /\ now >= acq[t].current_time + acq[t].wait_time
    /\ acq' = [acq EXCEPT ![t] = NoFrame(acq[t].calls)]
    /\ Grant(t, acq[t])
    /\ UNCHANGED <<regVars, mapVars, parseVars, now, getVars, loopVars, sessVars>>

\* time passes
Tick ==
    /\ now < ProcessStart + MaxTicks
    /\ now' = now + 1
    /\ UNCHANGED <<regVars, mapVars, parseVars, domain_limits, domain_counters, acq, grants,
                   getVars, loopVars, sessVars>>

\* ------------------------------------------------- NetworkService.get
\* base_delay = 1.0 and max_delay = 60.0 of calculate_retry_wait_time, in ticks
BaseDelay == 10
MaxDelay == 600

\* max_attempts: int = 3
DefaultMaxAttempts == 3

\* utils/common.py, calculate_retry_wait_time with jitter=False
calculate_retry_wait_time(attempt, base_delay, max_delay, exponential) ==
    Min(IF exponential THEN base_delay * (2 ^ (attempt - 1)) ELSE base_delay * attempt,
        max_delay)

\* line 237: wait_time = 1.0 * (2 ** (attempt - 1)), in ticks
NetworkService_wait_time(attempt) == TicksPerSecond * (2 ^ (attempt - 1))

\* values of the Retry-After header of a 429 answer: seconds, absent, a date
RetryAfterHeaders == {"3", None, "date"}

\* response.headers.get("Retry-After", "5")
HeaderOrDefault(h) == IF h = None THEN "5" ELSE h

\* int(text), -1 where int raises ValueError
IntOf(text) == IF text = "3" THEN 3 ELSE IF text = "5" THEN 5 ELSE -1

\* line 196 and 198: the context dict with its attempt entry
GetContext(g) ==
    { <<"url", g.url>>, <<"params", None>>, <<"attempt", g.attempt>>,
      <<"max_attempts", g.max_attempts>> }

\* RateLimitError(message, retry_after=..., context=context)
RateLimitError(retry_after, context) ==
    [type |-> "RateLimitError", cause |-> <<>>, context |-> context,
     retry_after |-> retry_after]

\* mutant: the retry conditions of lines 223 and 236 always true
AttemptsRemain_always(attempt, max_attempts) == TRUE

\* attempt < max_attempts
AttemptsRemain(attempt, max_attempts) == attempt < max_attempts

\* raise NcmRequestError(..., context=context) from e
GetRaise(g, answer, e) ==
    [g EXCEPT !.pc = "failed", !.sends = @ + 1, !.answers = Append(@, answer),
              !.outcome = Raised(Exc("NcmRequestError", <<>>, GetContext(g))),
              !.from = <<e>>]

\* await asyncio.sleep(d) and the next turn of the for loop, which ends the
\* call with None once range(1, max_attempts + 1) is used up
GetRetry(g, answer, d) ==
    IF g.attempt < g.max_attempts
    THEN [g EXCEPT !.attempt = @ + 1, !.sends = @ + 1, !.answers = Append(@, answer),
                   !.slept = Append(@, d)]
    ELSE [g EXCEPT !.pc = "done", !.sends = @ + 1, !.answers = Append(@, answer),
                   !.slept = Append(@, d), !.outcome = Returned(<<None>>)]

\* a caller awaits NetworkService.get(url, use_rate_limit=.., max_attempts=..)
CallGet(url, use_rate_limit, max_attempts) ==
    /\ get.pc = "idle"
    /\ get' = [NoGet EXCEPT !.pc = "acquire", !.url = url,
                            !.use_rate_limit = use_rate_limit,
                            !.max_attempts = max_attempts]
    /\ UNCHANGED <<regVars, mapVars, parseVars, limVars, loopVars, sessVars>>

\* lines 187-197: the one RateLimiter.acquire of the call, by a single task
\* from its first line to its return, then the for loop is entered
GetAcquire ==
    /\ get.pc = "acquire"
    /\ IF get.use_rate_limit
       THEN \E f \in {Frame(get.url, 1)} :
              /\ now' = now + f.wait_time
              /\ GrantAt("t1", f, now + f.wait_time)
       ELSE UNCHANGED <<now, domain_limits, domain_counters, grants>>
    /\ get' = IF get.max_attempts >= 1
              THEN [get EXCEPT !.pc = "attempt", !.attempt = 1,
                               !.acquires = IF get.use_rate_limit THEN 1 ELSE 0]
              ELSE [get EXCEPT !.pc = "done", !.outcome = Returned(<<None>>),
                               !.acquires = IF get.use_rate_limit THEN 1 ELSE 0]
    /\ UNCHANGED <<regVars, mapVars, parseVars, acq, loopVars, sessVars>>

\* statuses of an answer other than 429: success, client error, server error
OtherStatuses == {"200", "404", "500"}

\* the aiohttp.ClientResponse get hands to its caller
Response(status) == <<"response", status>>

\* mutant: response.raise_for_status() before the return
GetAnswered_raise_for_status(status) ==
    /\ get.pc = "attempt"
    /\ get' = IF status = "200"
              THEN [get EXCEPT !.pc = "done", !.sends = @ + 1,
                               !.answers = Append(@, <<status, None>>),
                               !.outcome = Returned(Response(status))]
              ELSE GetRaise(get, <<status, None>>,
                            Exc("aiohttp.ClientResponseError", <<>>, {}))
    /\ UNCHANGED <<regVars, mapVars, parseVars, limVars, loopVars, sessVars>>

\* lines 208-233: the request is answered with a status other than 429
GetAnswered(status) ==
    /\ get.pc = "attempt"
    /\ get' = [get EXCEPT !.pc = "done", !.sends = @ + 1,
                          !.answers = Append(@, <<status, None>>),
                          !.outcome = Returned(Response(status))]
    /\ UNCHANGED <<regVars, mapVars, parseVars, limVars, loopVars, sessVars>>

\* lines 216-231 and 249-253: the request is answered with 429; the
\* RateLimitError of line 227 is raised inside the try block, whose
\* `except Exception` catches it
GetRateLimited(h) ==
    /\ get.pc = "attempt"
    /\ \E retry_after \in {IntOf(HeaderOrDefault(h))} :
         IF retry_after < 0
         THEN /\ get' = GetRaise(get, <<"429", h>>, Exc("ValueError", <<>>, {}))
              /\ UNCHANGED now
         ELSE IF AttemptsRemain(get.attempt, get.max_attempts)
         THEN /\ get' = GetRetry(get, <<"429", h>>, retry_after * TicksPerSecond)
              /\ now' = now + retry_after * TicksPerSecond
         ELSE /\ get' = GetRaise(get, <<"429", h>>,
                                 RateLimitError(retry_after, GetContext(get)))
              /\ UNCHANGED now
    /\ UNCHANGED <<regVars, mapVars, parseVars, domain_limits, domain_counters, acq, grants,
                   loopVars, sessVars>>

\* lines 235-247: session.get raises aiohttp.ClientError or asyncio.TimeoutError
GetNetworkError(e) ==
    /\ get.pc = "attempt"
    /\ IF AttemptsRemain(get.attempt, get.max_attempts)
       THEN /\ get' = GetRetry(get, <<"error", None>>, NetworkService_wait_time(get.attempt))
            /\ now' = now + NetworkService_wait_time(get.attempt)
       ELSE /\ get' = GetRaise(get, <<"error", None>>, Exc(e, <<>>, {}))
            /\ UNCHANGED now
    /\ UNCHANGED <<regVars, mapVars, parseVars, domain_limits, domain_counters, acq, grants,
                   loopVars, sessVars>>

\* exceptions of an attempt that are neither aiohttp.ClientError nor
\* asyncio.TimeoutError: session.get on a closed session, a bad argument
OtherExceptions == {"RuntimeError", "TypeError"}

\* mutant: the exception handled by the clause of lines 235-247
GetOtherError_retry(e) ==
    /\ get.pc = "attempt"
    /\ IF AttemptsRemain(get.attempt, get.max_attempts)
       THEN /\ get' = GetRetry(get, <<"exception", None>>,
                               NetworkService_wait_time(get.attempt))
            /\ now' = now + NetworkService_wait_time(get.attempt)
       ELSE /\ get' = GetRaise(get, <<"exception", None>>, Exc(e, <<>>, {}))
            /\ UNCHANGED now
    /\ UNCHANGED <<regVars, mapVars, parseVars, domain_limits, domain_counters, acq, grants,
                   loopVars, sessVars>>

\* lines 249-253: the attempt raises another exception
GetOtherError(e) ==
    /\ get.pc = "attempt"
    /\ get' = GetRaise(get, <<"exception", None>>, Exc(e, <<>>, {}))
    /\ UNCHANGED <<regVars, mapVars, parseVars, limVars, loopVars, sessVars>>

\* ------------------------------------------------------------- event loop
\* The blocking calls one ParserService.parse makes, in order: "get" is the
\* requests.get of a resolution, "post" the requests.post of an upstream
\* operation.  A short link is resolved once and its target then fetched.
BlockingCalls(short, kind) ==
    (IF short THEN <<"get">> ELSE <<>>)
      \o [i \in 1..Len(CallPlan(kind)) |-> "post"]

\* a message arrives and its handler is scheduled as a task of the event loop
TaskSpawn(t, short, kind) ==
    /\ ptask[t].pc = "new"
    /\ ptask' = [ptask EXCEPT ![t] = [pc |-> "ready", calls |-> BlockingCalls(short, kind)]]
    /\ UNCHANGED <<regVars, mapVars, parseVars, limVars, getVars, sessVars, loop>>

\* the event loop, running no coroutine, resumes task t: its handler awaits
\* ParserService.parse
TaskRun(t) ==
    /\ loop = None
    /\ ptask[t].pc = "ready"
    /\ loop' = t
    /\ ptask' = [ptask EXCEPT ![t].pc = "running"]
    /\ UNCHANGED <<regVars, mapVars, parseVars, limVars, getVars, sessVars>>

\* requests.get / requests.post is called: a synchronous call, the thread of
\* the event loop stays in it until the answer has come
TaskRequest(t) ==
    /\ loop = t
    /\ ptask[t].pc = "running"
    /\ ptask[t].calls # <<>>
    /\ ptask' = [ptask EXCEPT ![t].pc = "in_request"]
    /\ UNCHANGED <<regVars, mapVars, parseVars, limVars, getVars, sessVars, loop>>

\* the answer has come and the call returns into the coroutine
TaskAnswer(t) ==
    /\ loop = t
    /\ ptask[t].pc = "in_request"
    /\ ptask' = [ptask EXCEPT ![t].pc = "running", ![t].calls = Tail(@)]
    /\ UNCHANGED <<regVars, mapVars, parseVars, limVars, getVars, sessVars, loop>>

\* parse returns, the handler ends and the event loop takes the thread back;
\* parse has no await that suspends before
TaskReturn(t) ==
    /\ loop = t
    /\ ptask[t].pc = "running"
    /\ ptask[t].calls = <<>>
    /\ loop' = None
    /\ ptask' = [ptask EXCEPT ![t].pc = "done"]
    /\ UNCHANGED <<regVars, mapVars, parseVars, limVars, getVars, sessVars>>

\* ------------------------------------------------ NetworkService.get_session
\* line 163, __aenter__: task t takes _session_lock, which it finds free; a
\* task that finds it held waits in acquire() until it is released
GetSessionEnter(t) ==
    /\ sess[t].pc = "idle"
    /\ sess[t].calls < MaxGets
    /\ session_lock = None
    /\ session_lock' = t
    /\ sess' = [sess EXCEPT ![t] = [pc |-> "locked", calls |-> @.calls + 1]]
    /\ UNCHANGED <<regVars, mapVars, parseVars, limVars, getVars, loopVars, session, sessions,
                   handed>>

\* lines 164-174 and __aexit__: create the session if there is none or it is
\* closed, return cls._session, release the lock
GetSessionBody(t) ==
    /\ sess[t].pc = "locked"
    /\ session_lock = t
    /\ IF NeedsSession(session, sessions)
       THEN /\ sessions' = Append(sessions, ClientSession(t))
            /\ session' = Len(sessions) + 1
            /\ handed' = Append(handed, [task |-> t, before |-> session,
                                         open |-> {i \in 1..Len(sessions) : ~sessions[i].closed},
                                         created |-> TRUE,
                                         session |-> Len(sessions) + 1])
       ELSE /\ UNCHANGED <<session, sessions>>
            /\ handed' = Append(handed, [task |-> t, before |-> session,
                                         open |-> {i \in 1..Len(sessions) : ~sessions[i].closed},
                                         created |-> FALSE,
                                         session |-> session])
    /\ session_lock' = None
    /\ sess' = [sess EXCEPT ![t].pc = "idle"]
    /\ UNCHANGED <<regVars, mapVars, parseVars, limVars, getVars, loopVars>>

\* whoever holds the session awaits session.close(), or the event loop it
\* belongs to is shut down
SessionClose ==
    /\ session # 0
    /\ ~sessions[session].closed
    /\ sessions' = [sessions EXCEPT ![session].closed = TRUE]
    /\ UNCHANGED <<regVars, mapVars, parseVars, limVars, getVars, loopVars, session,
                   session_lock, sess, handed>>

\* --------------------------------------------------- actions: entry points
\* a caller awaits ParserService.parse(u)
CallParse(u) ==
    /\ pc = "idle"
    /\ entry' = "parse"
    /\ argUrl' = u
    /\ curUrl' = u
    /\ pc' = "start"
    /\ UNCHANGED <<regVars, mapVars, depth, original_url, final_url, resource_type, resource_id,
                   resolved_url, fallback_exc, outcome, sent, lastGetUrl, netFault,
                   netVars, fetched, callLog, payloads, info>>

\* a caller awaits ParserService.resolve_short_url(u): the whole call
CallResolve(u) ==
    /\ pc = "idle"
    /\ entry' = "resolve"
    /\ argUrl' = u
    /\ \E o \in ParserService_resolve_short_url(u) :
         /\ Wire(o)
         /\ outcome' = IF o.tag = "return" THEN Returned(o.value)
                       ELSE IF o.tag = "raise" THEN Raised(o.exc)
                       ELSE outcome
         /\ pc' = IF o.tag = "return" THEN "done"
                  ELSE IF o.tag = "raise" THEN "failed"
                  ELSE "blocked"
    /\ UNCHANGED <<regVars, mapVars, depth, curUrl, original_url, final_url, resource_type,
                   resource_id, resolved_url, fallback_exc, netVars,
                   fetched, callLog, payloads, info>>

\* ------------------------------------------------ actions: ParserService.parse
\* line 63, in a frame the interpreter can still allocate
ParseStart ==
    /\ pc = "start"
    /\ IF depth >= RecursionLimit
       THEN /\ pc' = "failed"
            /\ outcome' = Raised(Exc("RecursionError", <<>>, {}))
            /\ UNCHANGED original_url
       ELSE /\ pc' = "resolving"
            /\ original_url' = strip(curUrl)
            /\ UNCHANGED outcome
    /\ UNCHANGED <<regVars, mapVars, entry, argUrl, depth, curUrl, final_url, resource_type,
                   resource_id, resolved_url, fallback_exc, sent, lastGetUrl,
                   netFault, netVars, fetched, callLog, payloads, info>>

\* line 66: final_url = await cls.resolve_short_url(original_url)
ParseResolve ==
    /\ pc = "resolving"
    /\ \E o \in ParserService_resolve_short_url(original_url) :
         /\ Wire(o)
         /\ IF o.tag = "return"
            THEN /\ final_url' = o.value
                 /\ pc' = "classifying"
                 /\ UNCHANGED outcome
            ELSE IF o.tag = "raise"
            THEN /\ pc' = "failed"
                 /\ outcome' = Raised(o.exc)
                 /\ UNCHANGED final_url
            ELSE /\ pc' = "blocked"
                 /\ UNCHANGED <<outcome, final_url>>
    /\ UNCHANGED <<regVars, mapVars, entry, argUrl, depth, curUrl, original_url, resource_type,
                   resource_id, resolved_url, fallback_exc, netVars,
                   fetched, callLog, payloads, info>>

\* lines 68-99: classification, fallback, and the branch on the kind
ParseClassify ==
    /\ pc = "classifying"
    /\ \E c \in {ClassifyWithFallback(parsers, original_url, final_url)} :
          /\ fallback_exc' = c.second
          /\ IF c.tag = "ok"
             THEN /\ resource_type' = c.kind
                  /\ resource_id' = c.id
                  /\ pc' = IF IsShortLink(c.kind) THEN "reresolving" ELSE "fetching"
                  /\ UNCHANGED outcome
             ELSE /\ pc' = "failed"
                  /\ outcome' = Raised(c.exc)
                  /\ UNCHANGED <<resource_type, resource_id>>
    /\ UNCHANGED <<regVars, mapVars, entry, argUrl, depth, curUrl, original_url, final_url,
                   resolved_url, sent, lastGetUrl, netFault, netVars,
                   fetched, callLog, payloads, info>>

\* line 100: resolved_url = await cls.resolve_short_url(original_url)
ParseReResolve ==
    /\ pc = "reresolving"
    /\ \E o \in ParserService_resolve_short_url(original_url) :
         /\ Wire(o)
         /\ IF o.tag = "return"
            THEN /\ resolved_url' = o.value
                 /\ pc' = "recheck"
                 /\ UNCHANGED outcome
            ELSE IF o.tag = "raise"
            THEN /\ pc' = "failed"
                 /\ outcome' = Raised(o.exc)
                 /\ UNCHANGED resolved_url
            ELSE /\ pc' = "blocked"
                 /\ UNCHANGED <<outcome, resolved_url>>
    /\ UNCHANGED <<regVars, mapVars, entry, argUrl, depth, curUrl, original_url, final_url,
                   resource_type, resource_id, fallback_exc, netVars,
                   fetched, callLog, payloads, info>>

\* lines 101-104: raise ShortUrlError
ParseShortFail ==
    /\ pc = "recheck"
    /\ NoProgress(resolved_url, original_url)
    /\ pc' = "failed"
    /\ outcome' = Raised(ShortUrlError(original_url))
    /\ UNCHANGED <<regVars, mapVars, entry, argUrl, depth, curUrl, original_url, final_url,
                   resource_type, resource_id, resolved_url, fallback_exc, sent,
                   lastGetUrl, netFault, netVars, fetched, callLog, payloads, info>>

\* line 107: return await cls.parse(resolved_url), a new frame with new locals
ParseRestart ==
    /\ pc = "recheck"
    /\ ~NoProgress(resolved_url, original_url)
    /\ depth' = depth + 1
    /\ curUrl' = resolved_url
    /\ pc' = "start"
    /\ original_url' = NoUrl
    /\ final_url' = NoUrl
    /\ resource_type' = None
    /\ resource_id' = NoId
    /\ resolved_url' = NoUrl
    /\ fallback_exc' = <<>>
    /\ UNCHANGED <<regVars, mapVars, entry, argUrl, outcome, sent, lastGetUrl, netFault,
                   netVars, fetched, callLog, payloads, info>>

\* lines 109-111 and fetch_resource_info: dispatch on the kind
ParseFetch ==
    /\ pc = "fetching"
    /\ fetched' = Append(fetched, <<resource_type, resource_id>>)
    /\ IF CallPlan(resource_type) # <<>>
       THEN pc' = "aggregating" /\ UNCHANGED outcome
       ELSE pc' = "failed" /\ outcome' = Raised(Exc("UnsupportedUrlError", <<>>, {}))
    /\ UNCHANGED <<regVars, mapVars, entry, argUrl, depth, curUrl, original_url, final_url,
                   resource_type, resource_id, resolved_url, fallback_exc, sent,
                   lastGetUrl, netFault, netVars, callLog, payloads, info>>

\* NcmApiService.request inside the running *_detail: the next operation of
\* the plan is requested with one requests.post
UpstreamCall ==
    /\ pc = "aggregating"
    /\ \E op \in {CallPlan(resource_type)[Len(callLog) + 1]} :
         callLog' = Append(callLog, [op |-> op,
                                     arg |-> CallArg(op, resource_id, payloads)])
    /\ sent' = [sent EXCEPT ![NcmHost] = @ + 1]
    /\ pc' = "awaiting"
    /\ UNCHANGED <<regVars, mapVars, entry, argUrl, depth, curUrl, original_url, final_url,
                   resource_type, resource_id, resolved_url, fallback_exc, outcome,
                   lastGetUrl, netFault, netVars, fetched, payloads, info>>

\* the requests.post answers and the *_detail keeps its dict; after the last
\* operation the *_detail returns the merged dict, which get_info calls info
UpstreamAnswer ==
    /\ pc = "awaiting"
    /\ \E r \in Responses(callLog[Len(callLog)].op) :
         \E rets \in {Append(payloads, [op |-> callLog[Len(callLog)].op, ret |-> r])} :
           /\ payloads' = rets
           /\ IF Len(rets) = Len(CallPlan(resource_type))
              THEN /\ info' = DetailReturn(resource_type, rets)
                   /\ pc' = "mapping"
              ELSE /\ pc' = "aggregating"
                   /\ UNCHANGED info
    /\ netFault' = None
    /\ UNCHANGED <<regVars, mapVars, entry, argUrl, depth, curUrl, original_url, final_url,
                   resource_type, resource_id, resolved_url, fallback_exc, outcome,
                   sent, lastGetUrl, netVars, fetched, callLog>>

\* mutant: get_info records the error and the *_detail goes on with the plan
UpstreamFail_continue(f) ==
    /\ pc = "awaiting"
    /\ netFault' = IF f \in TransportFailures THEN f ELSE None
    /\ pc' = IF Len(callLog) < Len(CallPlan(resource_type)) THEN "aggregating"
             ELSE "failed"
    /\ outcome' = Raised(GetInfoError(resource_id, Exc(f, <<>>, {})))
    /\ UNCHANGED <<regVars, mapVars, entry, argUrl, depth, curUrl, original_url, final_url,
                   resource_type, resource_id, resolved_url, fallback_exc,
                   sent, lastGetUrl, netVars, fetched, callLog, payloads, info>>

\* the requests.post, raise_for_status(), json.loads or the subscript of the
\* answer raises: the exception leaves the *_detail and get_info wraps it
UpstreamFail(f) ==
    /\ pc = "awaiting"
    /\ netFault' = IF f \in TransportFailures THEN f ELSE None
    /\ pc' = "failed"
    /\ outcome' = Raised(GetInfoError(resource_id, Exc(f, <<>>, {})))
    /\ UNCHANGED <<regVars, mapVars, entry, argUrl, depth, curUrl, original_url, final_url,
                   resource_type, resource_id, resolved_url, fallback_exc,
                   sent, lastGetUrl, netVars, fetched, callLog, payloads, info>>

\* the upstream never answers
UpstreamHang ==
    /\ pc = "awaiting"
    /\ SilentUpstream(RequestsTimeout) = "hang"
    /\ netFault' = None
    /\ pc' = "blocked"
    /\ UNCHANGED <<regVars, mapVars, entry, argUrl, depth, curUrl, original_url, final_url,
                   resource_type, resource_id, resolved_url, fallback_exc, outcome,
                   sent, lastGetUrl, netVars, fetched, callLog, payloads, info>>

\* lines 294-303 of get_info: model_func(info), and the except clause for the
\* exception of a missing or uncoercible field
MapModel ==
    /\ pc = "mapping"
    /\ \E m \in {MapToModel(resource_type, info)} :
         IF m.tag = "ok"
         THEN /\ pc' = "done"
              /\ outcome' = Returned([kind |-> resource_type, fields |-> m.model])
         ELSE /\ pc' = "failed"
              /\ outcome' = Raised(GetInfoError(resource_id, Exc(m.exc, <<>>, {})))
    /\ UNCHANGED <<regVars, mapVars, entry, argUrl, depth, curUrl, original_url, final_url,
                   resource_type, resource_id, resolved_url, fallback_exc, sent,
                   lastGetUrl, netFault, netVars, fetched, callLog, payloads, info>>

\* --------------------------------------------------- specification: parse
Init ==
    /\ parsers = ImportedParsers
    /\ regOrder = BuiltinParsers
    /\ phase = "serving"
    /\ clsUrl = NoUrl
    /\ clsResult = NotCalled
    /\ clsAgain = FALSE
    /\ IdleCall
    /\ IdleNet

Next ==
    \/ \E u \in InputUrls : CallParse(u)
    \/ \E u \in InputUrls : CallResolve(u)
    \/ ParseStart
    \/ ParseResolve
    \/ ParseClassify
    \/ ParseReResolve
    \/ ParseShortFail
    \/ ParseRestart
    \/ ParseFetch
    \/ UpstreamCall
    \/ UpstreamAnswer
    \/ \E f \in UpstreamFailures : UpstreamFail(f)
    \/ UpstreamHang
    \/ MapModel

Spec == Init /\ [][Next]_vars

\* ------------------------------------------------- specification: registry
InitRegistry ==
    /\ parsers = ImportedParsers
    /\ regOrder = BuiltinParsers
    /\ phase = "import"
    /\ clsUrl = NoUrl
    /\ clsResult = NotCalled
    /\ clsAgain = FALSE
    /\ IdleCall
    /\ IdleNet

\* UrlParserRegistry.register(p), called while plugins are imported
Register(p) ==
    /\ phase = "import"
    /\ parsers' = UrlParserRegistry_register(parsers, p)
    /\ regOrder' = IF InList(p, regOrder) THEN regOrder ELSE Append(regOrder, p)
    /\ UNCHANGED <<phase, clsUrl, clsResult, clsAgain, parseVars, netVars, mapVars>>

\* the list with its element p moved behind the others
MovedBack(list, p) ==
    SelectSeq(list, LAMBDA q : q # p) \o SelectSeq(list, LAMBDA q : q = p)

\* mutant: parse() moves the parser it used to the end of _parsers
Classify_demote(u) ==
    /\ phase' = "serving"
    /\ clsUrl' = u
    /\ clsResult' = UrlParserRegistry_parse(parsers, u)
    /\ clsAgain' = (clsResult # NotCalled /\ u = clsUrl)
    /\ parsers' = MovedBack(parsers, UrlParserRegistry_get_parser(parsers, u))
    /\ UNCHANGED <<regOrder, parseVars, netVars, mapVars>>

\* a caller invokes UrlParserRegistry.parse(u), and may call it again with
\* the same url; registration is over once urls are parsed
Classify(u) ==
    /\ phase' = "serving"
    /\ clsUrl' = u
    /\ clsResult' = UrlParserRegistry_parse(parsers, u)
    /\ clsAgain' = (clsResult # NotCalled /\ u = clsUrl)
    /\ UNCHANGED <<parsers, regOrder, parseVars, netVars, mapVars>>

NextRegistry ==
    \/ \E p \in PluginParsers : Register(p)
    \/ \E u \in (IF clsResult = NotCalled THEN Urls ELSE {clsUrl}) : Classify(u)

SpecRegistry == InitRegistry /\ [][NextRegistry]_vars

\* ---------------------------------------------- specification: rate limiter
InitLimiter ==
    /\ parsers = ImportedParsers
    /\ regOrder = BuiltinParsers
    /\ phase = "serving"
    /\ clsUrl = NoUrl
    /\ clsResult = NotCalled
    /\ clsAgain = FALSE
    /\ IdleCall
    /\ IdleNet

NextLimiter ==
    \/ \E t \in Tasks : \E url \in AcquireUrls : AcquireCall(t, url)
    \/ \E t \in Tasks : AcquireWake(t)
    \/ Tick

SpecLimiter == InitLimiter /\ [][NextLimiter]_vars

\* ------------------------------------------- specification: NetworkService
GetUrls == { <<Scheme, ShortHost, "/", "a">> }

NextGet ==
    \/ \E url \in GetUrls : \E use_rate_limit \in BOOLEAN :
         \E max_attempts \in 0..MaxAttempts : CallGet(url, use_rate_limit, max_attempts)
    \/ GetAcquire
    \/ \E status \in OtherStatuses : GetAnswered(status)
    \/ \E h \in RetryAfterHeaders : GetRateLimited(h)
    \/ \E e \in {"aiohttp.ClientError", "asyncio.TimeoutError"} : GetNetworkError(e)
    \/ \E e \in OtherExceptions : GetOtherError(e)

SpecGet == InitLimiter /\ [][NextGet]_vars

\* ---------------------------------------------- specification: event loop
NextLoop ==
    \/ \E t \in Tasks : \E short \in BOOLEAN : \E kind \in {"SONG", "USER", "ALBUM"} :
         TaskSpawn(t, short, kind)
    \/ \E t \in Tasks : TaskRun(t)
    \/ \E t \in Tasks : TaskRequest(t)
    \/ \E t \in Tasks : TaskAnswer(t)
    \/ \E t \in Tasks : TaskReturn(t)

SpecLoop == InitLimiter /\ [][NextLoop]_vars

\* ------------------------------------------------- specification: session
NextSession ==
    \/ \E t \in Tasks : GetSessionEnter(t)
    \/ \E t \in Tasks : GetSessionBody(t)
    \/ SessionClose

SpecSession == InitLimiter /\ [][NextSession]_vars

\* ------------------------------------------------- specification: mappers
FetchKinds == {"SONG", "ALBUM", "USER", "PLAYLIST", "ARTIST", "MV"}

\* the dict the *_detail of the kind returns when every answer is complete
FullInfo(kind) ==
    DetailReturn(kind, [i \in 1..Len(MergeOrder(kind)) |->
                           [op |-> MergeOrder(kind)[i],
                            ret |-> FullResponse(MergeOrder(kind)[i])]])

\* dicts handed to the mapper of the kind: the complete one, and the complete
\* one with one key absent or null, at the top or in the nested dict
MapInputs(kind) ==
    {FullInfo(kind)}
      \cup { Without(FullInfo(kind), k) : k \in Keys(FullInfo(kind)) }
      \cup { Nulled(FullInfo(kind), k) : k \in Keys(FullInfo(kind)) }
      \cup ( IF BoxOf(kind) = None THEN {}
             ELSE { WithoutSub(FullInfo(kind), BoxOf(kind), k) :
                    k \in Lookup(FullInfo(kind), BoxOf(kind)).sub } )

\* model_func(info) is called with the mapper of a kind and a dict
ApplyMapper(kind, d) ==
    /\ mapKind = None
    /\ mapKind' = kind
    /\ mapInfo' = d
    /\ mapResult' = MapToModel(kind, d)
    /\ UNCHANGED <<regVars, parseVars, netVars>>

NextMap == \E kind \in FetchKinds : \E d \in MapInputs(kind) : ApplyMapper(kind, d)

SpecMap == InitLimiter /\ [][NextMap]_vars

\* ==================================================================== claims
ResourceKinds == {"SONG", "ALBUM", "PLAYLIST", "USER", "ARTIST", "MV", "SHORT_URL"}

\* parser classes register() has seen, and their registration rank
RegisteredSet == { regOrder[i] : i \in 1..Len(regOrder) }
RegIndex(p) == CHOOSE i \in 1..Len(regOrder) : regOrder[i] = p

\* p is tried before q: lower PRIORITY first, ties in registration order
Precedes(p, q) ==
    \/ p.PRIORITY < q.PRIORITY
    \/ p.PRIORITY = q.PRIORITY /\ RegIndex(p) < RegIndex(q)

Matching(url) == { p \in RegisteredSet : Search(p.PATTERN, url).found }
FirstOf(ps) == CHOOSE p \in ps : \A q \in ps \ {p} : Precedes(p, q)
FirstMatching(url) == FirstOf(Matching(url))
IdBy(p, url) == Search(p.PATTERN, url).group

NoRequests == [h \in Hosts |-> 0]
Terminal == pc \in {"done", "failed"}

\* C1: parse reaches a terminal outcome after at most the configured number
\* (5) of short-link restarts, whatever the resolver answers.
\* The code has no depth counter: the restarts go on until the interpreter
\* refuses a new frame.
C1_TerminatesWithinDepthCap == depth <= 5

\* C2: the nested restarts never exceed the depth cap (5); when the next
\* restart would exceed it, parse fails with ShortUrlError instead of
\* restarting.
C2_CapRaisesShortUrlError ==
    [][(pc = "recheck" /\ depth >= 5)
         => (pc' = "failed" /\ outcome'.exc.type = "ShortUrlError")]_vars

\* C3: UrlParserRegistry.parse returns the kind and id of the first parser,
\* in ascending PRIORITY and then registration order, whose pattern matches;
\* a later parser that matches too never determines the result.
C3_FirstMatchWins ==
    (phase = "serving" /\ Matching(clsUrl) # {})
      => LET first == FirstMatching(clsUrl)
             id == IdBy(first, clsUrl)
         IN IF id # <<>>
            THEN clsResult = Return(first.RESOURCE_TYPE, id)
            ELSE clsResult.tag = "raise"

\* a parser registered after the built-in ones wins by its lower PRIORITY over
\* a built-in parser that matches the same url and would give another kind
C3_Witness ==
    /\ phase = "serving"
    /\ clsResult.tag = "ok"
    /\ LET ms == Matching(clsUrl)
           first == FirstOf(ms)
       IN \E q \in ms :
            /\ q # first
            /\ RegIndex(q) < RegIndex(first)
            /\ q.RESOURCE_TYPE # clsResult.kind

\* C4: UrlParserRegistry.parse raises UnsupportedUrlError exactly when no
\* registered pattern matches, UrlParseError when the parser that matches
\* extracts an empty id, and returns a (kind, id) pair in every other case.
C4_ClassifyErrors ==
    phase = "serving"
      => LET ms == Matching(clsUrl)
         IN /\ (clsResult = Raise("UnsupportedUrlError")) <=> (ms = {})
            /\ ms # {}
                 => IF IdBy(FirstOf(ms), clsUrl) = <<>>
                    THEN clsResult = Raise("UrlParseError")
                    ELSE /\ clsResult.tag = "ok"
                         /\ clsResult.kind \in ResourceKinds
                         /\ clsResult.id # <<>>

\* a pattern matched and the id it extracted is empty
C4_Witness ==
    /\ phase = "serving"
    /\ Matching(clsUrl) # {}
    /\ clsResult = Raise("UrlParseError")

\* C5: when the classified kind is SHORT_URL, parse resolves original_url
\* again; if the result equals original_url it raises ShortUrlError and the
\* aggregator is never called, otherwise it restarts with the result.
C5_ShortLinkReResolve ==
    /\ [][(pc = "classifying" /\ resource_type' = "SHORT_URL")
            => pc' = "reresolving"]_vars
    /\ [][pc = "reresolving"
            => (lastGetUrl' = RequestUrl(original_url) /\ sent' # sent)]_vars
    /\ [][pc = "recheck"
            => IF resolved_url = original_url
               THEN /\ pc' = "failed"
                    /\ outcome'.exc.type = "ShortUrlError"
                    /\ fetched' = <<>>
                    /\ callLog' = <<>>
               ELSE /\ pc' = "start"
                    /\ curUrl' = resolved_url
                    /\ depth' = depth + 1]_vars

\* a restart was made and the restarted pipeline then made no progress
C5_Witness ==
    /\ pc = "failed"
    /\ outcome.exc.type = "ShortUrlError"
    /\ depth >= 1

ClassFails(u) == UrlParserRegistry_parse(parsers, u).tag = "raise"

\* C6: when final_url does not classify and differs from original_url,
\* original_url is classified instead: on success parse goes on with its
\* (kind, id), on failure it raises UrlParseError whose context holds both
\* urls.
C6_FallbackClassification ==
    [][(pc = "classifying" /\ ClassFails(final_url) /\ final_url # original_url)
         => IF ClassFails(original_url)
            THEN /\ pc' = "failed"
                 /\ outcome'.exc.type = "UrlParseError"
                 /\ {<<"original_url", original_url>>, <<"final_url", final_url>>}
                       \subseteq outcome'.exc.context
            ELSE /\ pc' \in {"reresolving", "fetching"}
                 /\ resource_type' = UrlParserRegistry_parse(parsers, original_url).kind
                 /\ resource_id' = UrlParserRegistry_parse(parsers, original_url).id]_vars

\* the fallback classified original_url after final_url had failed
C6_Witness ==
    /\ pc \in {"reresolving", "fetching"}
    /\ final_url # original_url
    /\ ClassFails(final_url)
    /\ resource_type # None

\* C7, as claimed: when the second classification fails too, the caller gets
\* the error of that second classification itself, unchanged.
C7_SecondErrorUnchanged ==
    (pc = "failed" /\ fallback_exc # <<>>) => outcome.exc = fallback_exc[1]

\* C7, amended: when the second classification fails too, the caller gets a
\* new UrlParseError whose cause is the error of the second classification
\* and whose context holds both urls; the second error itself is not raised.
C7_SecondErrorWrapped ==
    (pc = "failed" /\ fallback_exc # <<>>)
      => /\ outcome.exc.type = "UrlParseError"
         /\ outcome.exc.cause = fallback_exc
         /\ outcome.exc # fallback_exc[1]
         /\ fallback_exc[1].type = UrlParserRegistry_parse(parsers, original_url).exc
         /\ outcome.exc.context =
               {<<"original_url", original_url>>, <<"final_url", final_url>>}

\* the second classification raised UnsupportedUrlError
C7_Witness ==
    /\ pc = "failed"
    /\ fallback_exc # <<>>
    /\ fallback_exc[1].type = "UnsupportedUrlError"

\* C8: resolve_short_url, for a url of the short-link host whose request
\* fails, returns the trimmed original url and raises nothing.
\* The except clause catches ShortUrlError only, which the request never
\* raises, so the transport error leaves the call.
C8_ResolveFailureReturnsOriginal ==
    (entry = "resolve" /\ Terminal /\ Contains(argUrl, ShortHost) /\ netFault # None)
      => outcome = Returned(strip(argUrl))

\* C9, as claimed: resolve_short_url, for a url that does not name the
\* short-link host, returns the input url, sends nothing and acquires nothing.
C9_ReturnsInputUnchanged ==
    (entry = "resolve" /\ Terminal /\ ~Contains(argUrl, ShortHost))
      => /\ outcome = Returned(argUrl)
         /\ sent = NoRequests
         /\ domain_counters = NoRequests

\* C9, amended: it returns the input url with the surrounding whitespace
\* removed (the input itself when it has none, as in every call parse makes),
\* sends nothing and acquires nothing.
C9_ReturnsTrimmedInput ==
    /\ (entry = "resolve" /\ Terminal /\ ~Contains(argUrl, ShortHost))
         => /\ outcome = Returned(strip(argUrl))
            /\ sent = NoRequests
            /\ domain_counters = NoRequests
    /\ (entry = "parse" /\ pc = "classifying" /\ ~Contains(original_url, ShortHost))
         => /\ final_url = original_url
            /\ depth = 0 => sent = NoRequests
            /\ domain_counters = NoRequests

\* the call returned a url that is not the one it was given
C9_Witness ==
    /\ entry = "resolve"
    /\ pc = "done"
    /\ ~Contains(argUrl, ShortHost)
    /\ argUrl # strip(argUrl)

\* C10: every request of a parse goes through the retrying client, so each is
\* preceded by a RateLimiter.acquire for its host.
\* The requests are made with requests.get and requests.post directly.
C10_RequestsAreRateLimited ==
    \A h \in Hosts : sent[h] <= domain_counters[h]

\* two acquisitions granted for the same domain, the second one later
SameDomainPair(i, j) ==
    /\ i < j
    /\ grants[i].domain = grants[j].domain

\* C11: acquisitions of two tasks for the same host are serialized: the
\* second computes its wait from the timestamp the first recorded, and the two
\* grants are at least one interval apart.
\* acquire holds no lock: a task that reads last_time while another sleeps in
\* line 140 reads the timestamp the sleeping task has read too.
C11_SameHostSerialized ==
    \A i, j \in 1..Len(grants) :
        (SameDomainPair(i, j) /\ grants[i].task # grants[j].task)
          => /\ grants[j].last_time >= grants[i].at
             /\ grants[j].at >= grants[i].at + DEFAULT_INTERVAL

\* C12: for one caller acquiring twice for the same host, the second call
\* returns a wait of 0 only if the interval has passed since the recorded
\* timestamp; otherwise it waits max(0, lastTime + interval - now), and the
\* second grant is at least one interval after the first.
C12_SequentialCallsSpaced ==
    /\ \A i \in 1..Len(grants) :
         LET g == grants[i]
         IN /\ g.wait_time = Max(0, g.last_time + DEFAULT_INTERVAL - g.current_time)
            /\ g.wait_time = 0 => g.current_time >= g.last_time + DEFAULT_INTERVAL
            /\ g.at >= g.current_time + g.wait_time
    /\ \A i, j \in 1..Len(grants) :
         (SameDomainPair(i, j) /\ grants[i].task = grants[j].task)
           => /\ grants[j].last_time >= grants[i].at
              /\ grants[j].at >= grants[i].at + DEFAULT_INTERVAL

\* a task acquired twice for one host and had to wait the second time
C12_Witness ==
    \E i, j \in 1..Len(grants) :
        /\ SameDomainPair(i, j)
        /\ grants[i].task = grants[j].task
        /\ grants[j].wait_time > 0
        /\ grants[j].last_time = grants[i].at

\* C13: acquire for one host never waits because of, and never changes, the
\* timestamp or the counter of another host.
C13_HostsIndependent ==
    /\ [][\A h \in Hosts :
            (domain_limits'[h] # domain_limits[h] \/ domain_counters'[h] # domain_counters[h])
              => /\ Len(grants') = Len(grants) + 1
                 /\ HostOf(grants'[Len(grants')].url) = h]_vars
    /\ [][\A t \in Tasks :
            acq'[t].calls = acq[t].calls + 1
              => LET f == IF acq'[t].pc = "sleeping" THEN acq'[t]
                          ELSE grants'[Len(grants')]
                 IN f.wait_time =
                      Max(0, domain_limits[HostOf(f.url)] + DEFAULT_INTERVAL - now)]_vars

\* while a task waits for one host, another task was granted a second host
\* without waiting
C13_Witness ==
    \E t \in Tasks : \E i \in 1..Len(grants) :
        /\ acq[t].pc = "sleeping"
        /\ grants[i].task # t
        /\ grants[i].domain # acq[t].domain
        /\ grants[i].wait_time = 0
        /\ grants[i].at >= acq[t].current_time
        /\ domain_limits[grants[i].domain] > domain_limits[acq[t].domain]

GetOver == get.pc \in {"done", "failed"}

\* every attempt of the call got the answer a
AllAnswers(a) ==
    /\ get.answers # <<>>
    /\ \A i \in 1..Len(get.answers) : get.answers[i] = a

\* C14: with 429 and Retry-After: 3 on every attempt and max_attempts 3, get
\* sends exactly 3 requests, sleeps 3 seconds before attempts 2 and 3, and
\* fails with RateLimitError whose retry_after is 3.
\* The RateLimitError is raised inside the try block and caught by its
\* `except Exception`: the caller gets NcmRequestError.
C14_Exhausted429RaisesRateLimitError ==
    (GetOver /\ get.max_attempts = DefaultMaxAttempts /\ AllAnswers(<<"429", "3">>))
      => /\ get.sends = 3
         /\ get.slept = <<3 * TicksPerSecond, 3 * TicksPerSecond>>
         /\ get.pc = "failed"
         /\ get.outcome.exc.type = "RateLimitError"
         /\ "retry_after" \in DOMAIN get.outcome.exc
         /\ get.outcome.exc.retry_after = 3

\* C15: get sends at most max_attempts requests; when every attempt fails with
\* a network or timeout error it raises NcmRequestError only after the last
\* attempt, having slept between consecutive attempts and not after the last.
C15_BoundedAttempts ==
    /\ [](get.sends <= get.max_attempts)
    /\ []((GetOver /\ AllAnswers(<<"error", None>>))
            => /\ get.pc = "failed"
               /\ get.outcome.exc.type = "NcmRequestError"
               /\ get.from[1].type \in {"aiohttp.ClientError", "asyncio.TimeoutError"}
               /\ get.sends = get.max_attempts
               /\ Len(get.slept) = get.max_attempts - 1)
    /\ [][(get.pc = "attempt" /\ get'.pc = "attempt")
            => /\ Len(get'.slept) = Len(get.slept) + 1
               /\ now' > now]_vars
    /\ [][(get.pc = "attempt" /\ get'.pc = "failed")
            => /\ get'.slept = get.slept
               /\ now' = now]_vars

\* three attempts failed with a network error and the call has raised
C15_Witness ==
    /\ get.pc = "failed"
    /\ get.max_attempts = DefaultMaxAttempts
    /\ AllAnswers(<<"error", None>>)
    /\ get.sends = 3

\* C16: with rate limiting enabled, every attempt of get, the first and each
\* retry, is preceded by its own RateLimiter.acquire.
\* acquire is called once, before the for loop.
C16_AcquirePerAttempt ==
    get.use_rate_limit => get.sends <= get.acquires

\* C17: the backoff delay after failed attempt n is min(cap, base * 2^(n-1)),
\* non-decreasing in n and never above the cap, in calculate_retry_wait_time
\* without jitter and in the delay get sleeps, for every max_attempts.
\* get computes 1.0 * 2 ** (attempt - 1) itself and applies no cap.
C17_BackoffCapped ==
    /\ [](\A n \in 1..MaxAttempts :
            /\ calculate_retry_wait_time(n, BaseDelay, MaxDelay, TRUE)
                 = Min(MaxDelay, BaseDelay * (2 ^ (n - 1)))
            /\ calculate_retry_wait_time(n, BaseDelay, MaxDelay, TRUE)
                 <= calculate_retry_wait_time(n + 1, BaseDelay, MaxDelay, TRUE))
    /\ [][(get.pc = "attempt" /\ get'.pc = "attempt"
             /\ get'.answers[Len(get'.answers)][1] = "error")
            => /\ get'.slept[Len(get'.slept)]
                    = Min(MaxDelay, BaseDelay * (2 ^ (get.attempt - 1)))
               /\ get'.slept[Len(get'.slept)] <= MaxDelay]_vars

\* the classes under NetworkError in utils/exceptions.py
NetworkErrorTypes == {"NetworkError", "NcmRequestError", "NcmResponseError", "RateLimitError"}

ContextKeys(e) == { kv[1] : kv \in e.context }

\* C18: no raw transport exception reaches the caller of parse: a transport
\* failure surfaces as a NetworkError subtype whose context holds the request
\* url and the attempt count.
\* The resolution request's exception is not caught at all; an upstream call's
\* exception leaves get_info as NcmResponseError with context {"id": id}.
C18_NoRawTransportError ==
    (entry = "parse" /\ pc = "failed" /\ netFault # None)
      => /\ outcome.exc.type \in NetworkErrorTypes
         /\ {"url", "attempt"} \subseteq ContextKeys(outcome.exc)

\* C19: every HTTP call of a parse carries a timeout, so a parse whose upstream
\* never answers still ends (with NcmRequestError) instead of waiting forever:
\* a parse that has not ended can take a step.
\* requests.get and requests.post are given no timeout.
C19_CallsTimeOut ==
    entry = "parse" => (Terminal \/ ENABLED Next)

\* C20: while one parse task waits on a network call, other parse tasks can
\* still make progress: a task that is ready to run can be resumed.
\* requests.get and requests.post block the thread of the event loop, and
\* parse suspends nowhere, so a ready task waits until the running parse is over.
C20_NetworkWaitsDoNotBlock ==
    \A t, u \in Tasks :
        (t # u /\ ptask[t].pc = "in_request" /\ ptask[u].pc = "ready")
          => ENABLED TaskRun(u)

\* the sessions that are open
OpenSessions == { i \in 1..Len(sessions) : ~sessions[i].closed }

\* C21: under any interleaving of get_session callers at most one session is
\* open at a time: a session is created only when there is none or the
\* existing one is closed, only by the task holding the session lock, and a
\* caller that finds an open session is handed that session.
C21_OneOpenSession ==
    /\ [](Cardinality(OpenSessions) <= 1)
    /\ [](\A i \in 1..Len(handed) :
            /\ handed[i].created
                 <=> (handed[i].before = 0 \/ handed[i].before \notin handed[i].open)
            /\ handed[i].created => handed[i].open = {}
            /\ ~handed[i].created => handed[i].session = handed[i].before
            /\ handed[i].open # {} => handed[i].open = {handed[i].session})
    /\ [][Len(sessions') > Len(sessions)
            => /\ session_lock \in Tasks
               /\ sess[session_lock].pc = "locked"
               /\ sessions'[Len(sessions')].by = session_lock
               /\ session' = Len(sessions')]_vars

\* a second session was created after the first had been closed, and a later
\* caller was handed the open one
C21_Witness ==
    /\ Len(sessions) = 2
    /\ sessions[1].closed
    /\ ~sessions[2].closed
    /\ \E i \in 1..Len(handed) : ~handed[i].created /\ handed[i].session = 2

\* the operations requested so far, in order
IssuedOps == [i \in 1..Len(callLog) |-> callLog[i].op]

\* every operation of the plan has returned
PlanReturned == payloads # <<>> /\ Len(payloads) = Len(CallPlan(resource_type))

\* the text of the thread id in a comment-metadata answer, "" if it has none
ThreadTextIn(ret) ==
    IF \E kv \in ret : kv[1] = "threadId"
    THEN (CHOOSE kv \in ret : kv[1] = "threadId")[2].text
    ELSE ""

\* C22: in one call plan the upstream calls are issued strictly one after
\* another, each only when every earlier one has returned, and the
\* comment-thread call is issued only after the comment-metadata call has
\* returned, with the thread identifier of that answer.
C22_PlanSequential ==
    /\ [](Len(callLog) - Len(payloads) \in {0, 1})
    /\ [](\A i \in 1..Len(payloads) : payloads[i].op = callLog[i].op)
    /\ [][callLog' # callLog
            => /\ Len(payloads) = Len(callLog)
               /\ Len(callLog') = Len(callLog) + 1
               /\ SubSeq(callLog', 1, Len(callLog)) = callLog]_vars
    /\ [](\A i \in 1..Len(callLog) :
            callLog[i].op = "comments"
              => \E j \in 1..(i - 1) :
                    /\ j <= Len(payloads)
                    /\ payloads[j].op = "commentInfo"
                    /\ callLog[i].arg = <<ThreadTextIn(payloads[j].ret)>>)

\* the comment thread was requested with the thread id the metadata answer held
C22_Witness ==
    /\ pc = "awaiting"
    /\ callLog[Len(callLog)] = [op |-> "comments", arg |-> <<ThreadText>>]
    /\ \E j \in 1..Len(payloads) :
         payloads[j].op = "commentInfo" /\ ThreadTextIn(payloads[j].ret) = ThreadText

\* C23: the Song call plan issues its four upstream calls in the order song
\* detail, comment metadata, comment thread, lyrics.
\* song_detail requests the lyrics third and the comment thread last.
C23_SongPlanOrder ==
    (resource_type = "SONG" /\ PlanReturned)
      => IssuedOps = <<"song_detail", "commentInfo", "comments", "lyric">>

\* the last returned payload that holds the key k
LastWith(k) ==
    CHOOSE i \in 1..Len(payloads) :
        /\ k \in Keys(payloads[i].ret)
        /\ \A j \in (i + 1)..Len(payloads) : k \notin Keys(payloads[j].ret)

\* C24: the merged payload of a fetch has exactly the union of the keys of the
\* call payloads, and for a key present in several of them the value of the
\* call issued latest.
C24_MergedLastWins ==
    PlanReturned
      => /\ Keys(info) = UNION { Keys(payloads[i].ret) : i \in 1..Len(payloads) }
         /\ Cardinality(info) = Cardinality(Keys(info))
         /\ \A k \in Keys(info) :
              Lookup(info, k) = Lookup(payloads[LastWith(k)].ret, k)

\* a key held by two payloads of a song fetch has the value of the later call
C24_Witness ==
    /\ PlanReturned
    /\ resource_type = "SONG"
    /\ \E i, j \in 1..Len(payloads) :
         /\ i < j
         /\ "code" \in Keys(payloads[i].ret) \cap Keys(payloads[j].ret)
         /\ Lookup(info, "code").from = payloads[j].op
         /\ Lookup(info, "code") # Lookup(payloads[i].ret, "code")

\* C25: if a call of a plan raises, no later call of the plan is issued and
\* the fetch fails with NcmResponseError whose cause is that exception and
\* whose context holds the resource id.
C25_PlanAbortsOnFirstError ==
    /\ [][(pc = "awaiting" /\ pc' = "failed")
            => /\ outcome'.exc.type = "NcmResponseError"
               /\ Len(outcome'.exc.cause) = 1
               /\ outcome'.exc.cause[1].type \in UpstreamFailures
               /\ <<"id", resource_id>> \in outcome'.exc.context
               /\ callLog' = callLog]_vars
    /\ [](pc = "failed" => ~ENABLED UpstreamCall)
    /\ []((pc = "failed" /\ Len(callLog) > Len(payloads))
            => /\ Len(callLog) = Len(payloads) + 1
               /\ outcome.exc.type = "NcmResponseError"
               /\ <<"id", resource_id>> \in outcome.exc.context)

\* the second call of a song's plan raised and the last two were never issued
C25_Witness ==
    /\ pc = "failed"
    /\ resource_type = "SONG"
    /\ IssuedOps = <<"song_detail", "commentInfo">>
    /\ Len(payloads) = 1
    /\ outcome.exc.cause[1].type = "requests.HTTPError"

\* the comment-metadata answer of the running fetch has returned without a
\* thread identifier
NoThreadId ==
    \E j \in 1..Len(payloads) :
        payloads[j].op = "commentInfo" /\ "threadId" \notin Keys(payloads[j].ret)

\* C26: when the song detail call has succeeded and the comment-metadata
\* answer has no thread identifier, the comment-thread call is still issued,
\* with an empty identifier, and its empty or degenerate result is merged and
\* the fetch completes without aborting.
C26_EmptyThreadIdTolerated ==
    /\ []((resource_type = "SONG" /\ NoThreadId)
            => \A i \in 1..Len(callLog) :
                  callLog[i].op = "comments" => callLog[i].arg = <<"">>)
    /\ [][(resource_type = "SONG" /\ NoThreadId /\ pc = "aggregating"
             /\ Len(callLog) = Len(CallPlan("SONG")) - 1)
            => /\ pc' = "awaiting"
               /\ callLog' = Append(callLog, [op |-> "comments", arg |-> <<"">>])]_vars
    /\ []((resource_type = "SONG" /\ NoThreadId /\ PlanReturned)
            => /\ RetOf(payloads, "comments") \subseteq info
               /\ (Terminal /\ RetOf(payloads, "song_detail") = FullResponse("song_detail")
                     /\ "commentCount" \in Keys(RetOf(payloads, "commentInfo")))
                    => /\ pc = "done"
                       /\ outcome.value.kind = "SONG")

\* a song was returned whose comment thread was requested with no identifier
\* and answered with an empty dict
C26_Witness ==
    /\ pc = "done"
    /\ resource_type = "SONG"
    /\ NoThreadId
    /\ callLog[Len(callLog)] = [op |-> "comments", arg |-> <<"">>]
    /\ RetOf(payloads, "comments") = {}
    /\ <<"hotComments", "default">> \in outcome.value.fields

\* C27: when the merged payload of a song lacks the name field, mapping raises
\* an error that references the song id (get_info's NcmResponseError, whose
\* cause is the KeyError of the mapper) and no SongInfo is returned.
C27_MissingNameFailsMapping ==
    /\ []((resource_type = "SONG" /\ PlanReturned /\ "name" \notin Keys(info) /\ Terminal)
            => /\ pc = "failed"
               /\ outcome.tag = "raise"
               /\ outcome.exc.type = "NcmResponseError"
               /\ outcome.exc.cause = <<Exc("KeyError", <<>>, {})>>
               /\ <<"id", resource_id>> \in outcome.exc.context)
    /\ [][(pc = "mapping" /\ resource_type = "SONG" /\ "name" \notin Keys(info))
            => pc' = "failed"]_vars

\* every call of a song's plan returned, the merged payload has no name, and
\* the parse has failed
C27_Witness ==
    /\ pc = "failed"
    /\ resource_type = "SONG"
    /\ PlanReturned
    /\ "name" \notin Keys(info)
    /\ {"id", "ar", "al", "commentCount", "hotComments"} \subseteq Keys(info)

\* the optional legacy metadata: lyric uploader and translator
LegacyOptional == {"lyricUser", "transUser"}

\* C28: for every kind and every required field of its model (every field but
\* the optional legacy metadata), a merged payload without the field's key
\* makes mapping fail; no required field is filled with a default.
\* createTime and birthday of a user, tns and alia of a song and hotComments
\* are read with .get(key, default).
C28_RequiredFieldsNotDefaulted ==
    mapResult.tag = "ok"
      => \A kv \in mapResult.model :
            kv[1] \notin LegacyOptional => kv[2] # "default"

\* the classes of utils/exceptions.py
TypedErrors ==
    NetworkErrorTypes \cup
      {"NcmBaseException", "UrlError", "UrlParseError", "UnsupportedUrlError",
       "ShortUrlError"}

\* C29: every terminal outcome of parse is a model built after every call of
\* the plan succeeded and every required field was mapped, or a raised typed
\* error; no model is returned after a plan call or a field mapping failed.
\* The exception of a resolution request reaches the caller as it is (C8,
\* C18), the restarts end in RecursionError (C1), and a model is returned with
\* defaults in required fields (C28).
C29_CompleteModelOrTypedError ==
    (entry = "parse" /\ Terminal)
      => \/ /\ pc = "done"
            /\ outcome.tag = "return"
            /\ PlanReturned
            /\ \A kv \in outcome.value.fields :
                 kv[1] \notin LegacyOptional => kv[2] # "default"
         \/ /\ pc = "failed"
            /\ outcome.tag = "raise"
            /\ outcome.exc.type \in TypedErrors

\* an id is a non-empty string of digits
IsDigits(id) ==
    /\ id # <<>>
    /\ \A i \in 1..Len(id) : IsDigitAtom(id[i]) \/ id[i] = ClassHead("digit", ShortHost)

\* C30: the aggregator is invoked only after a successful classification, with
\* one of the six kinds that are not the short link and an id that is a
\* non-empty string of digits.
C30_AggregatorPrecondition ==
    /\ [](\A i \in 1..Len(fetched) :
            /\ fetched[i][1] \in FetchKinds
            /\ IsDigits(fetched[i][2]))
    /\ [][fetched' # fetched
            => /\ pc = "fetching"
               /\ ClassifyWithFallback(parsers, original_url, final_url).tag = "ok"
               /\ fetched' = Append(fetched,
                     << ClassifyWithFallback(parsers, original_url, final_url).kind,
                        ClassifyWithFallback(parsers, original_url, final_url).id >>)]_vars
    /\ [](Len(callLog) > 0 => Len(fetched) = 1)

\* after a short link was resolved and the pipeline restarted, the aggregator
\* was invoked for the album the link led to
C30_Witness ==
    /\ depth >= 1
    /\ fetched = << <<"ALBUM", <<"7", "7">> >> >>
    /\ pc = "aggregating"

\* C31: within one parse request, restarts included, the aggregator is invoked
\* at most once, each call of the plan is issued at most once, and once the
\* fetch or the mapping has raised no further upstream call is made.
C31_AggregationFailureTerminal ==
    /\ [](Len(fetched) <= 1)
    /\ [](\A i, j \in 1..Len(callLog) : callLog[i].op = callLog[j].op => i = j)
    /\ [](Len(callLog) <= Len(CallPlan(resource_type)))
    /\ [][outcome.tag = "raise"
            => /\ callLog' = callLog
               /\ fetched' = fetched
               /\ sent' = sent]_vars
    /\ [](outcome.tag = "raise" => (pc = "failed" /\ ~ENABLED UpstreamCall))

\* after a restart for a short link, the first call of an album's plan was
\* answered, the second raised, and the parse has failed
C31_Witness ==
    /\ pc = "failed"
    /\ depth >= 1
    /\ Len(fetched) = 1
    /\ resource_type = "ALBUM"
    /\ Len(callLog) = Len(payloads) + 1
    /\ outcome.exc.type = "NcmResponseError"

\* the requests sent for resolutions: all but those of the call plan
ResolutionsSent ==
    sent[NcmHost] + sent[ShortHost] + sent["other"] - Len(callLog)

\* parse was given a short url, and the one resolution request it has sent
\* was answered with the album url
ResolvedToAlbum ==
    /\ entry = "parse"
    /\ Contains(strip(argUrl), ShortHost)
    /\ ResolutionsSent = 1
    /\ final_url = AlbumUrl

\* C32: for a short url that resolves to an album url, parse restarts the
\* pipeline exactly once and then classifies the reference as Album with the
\* id of the url, before aggregating.
\* The album url is classified in the invocation that resolved the short url.
C32_RestartsExactlyOnce ==
    (ResolvedToAlbum /\ fetched # <<>>)
      => /\ depth = 1
         /\ fetched = << <<"ALBUM", <<"7", "7">> >> >>

\* C32, amended: the album url the resolution returned is classified in the
\* same invocation as Album with the id of the url and aggregated without a
\* restart; parse restarts only from an invocation whose resolved url was not
\* classified as one of the six fetchable kinds.
C32_ResolvedAlbumNoRestart ==
    /\ [][(pc = "classifying" /\ final_url = AlbumUrl)
            => /\ pc' = "fetching"
               /\ resource_type' = "ALBUM"
               /\ resource_id' = <<"7", "7">>
               /\ depth' = depth]_vars
    /\ [][depth' # depth
            => /\ depth' = depth + 1
               /\ UrlParserRegistry_parse(parsers, final_url).kind \notin FetchKinds]_vars
    /\ []((ResolvedToAlbum /\ fetched # <<>>)
            => /\ depth = 0
               /\ fetched = << <<"ALBUM", <<"7", "7">> >> >>)

\* the short url was resolved to the album url with one request and the
\* album's plan is running in the first invocation
C32_Witness ==
    /\ ResolvedToAlbum
    /\ original_url # final_url
    /\ depth = 0
    /\ pc = "aggregating"
    /\ fetched = << <<"ALBUM", <<"7", "7">> >> >>

\* the url holds /song?id= or /song/ at j with a digit behind it
SongPathAt(url, j) ==
    /\ j + 3 <= Len(url)
    /\ url[j] = "/"
    /\ url[j + 1] = "song"
    /\ url[j + 2] \in {"?id=", "/"}
    /\ (IsDigitAtom(url[j + 3]) \/ ClassHead("digit", url[j + 3]) # "")

\* the places of a song path behind the music host
SongPaths(url) ==
    { j \in 1..Len(url) : SongPathAt(url, j) /\ \E i \in 1..(j - 1) : url[i] = NcmHost }

\* the digits of the url from g on, up to the first character that is none
DigitRun(url, g) ==
    LET n == CHOOSE n \in 0..Len(url) :
                 /\ g + n - 1 <= Len(url)
                 /\ \A k \in g..(g + n - 1) : IsDigitAtom(url[k])
                 /\ (g + n > Len(url) \/ ~IsDigitAtom(url[g + n]))
    IN SubSeq(url, g, g + n - 1)
         \o (IF g + n <= Len(url) /\ ClassHead("digit", url[g + n]) # ""
             THEN <<ClassHead("digit", url[g + n])>> ELSE <<>>)

\* C33: for every url that holds the music host followed by a path with
\* /song?id=<digits> or /song/<digits>, UrlParserRegistry.parse returns Song
\* and exactly the digit string of the url, in a registry where no registered
\* parser precedes SongParser (as in the registry url_parser.py builds).
C33_SongUrlClassified ==
    (clsResult # NotCalled /\ SongPaths(clsUrl) # {} /\ Head(parsers) = SongParser)
      => /\ clsResult.tag = "ok"
         /\ clsResult.kind = "SONG"
         /\ \E j \in SongPaths(clsUrl) : clsResult.id = DigitRun(clsUrl, j + 3)

\* the url <music host>/song/77 was classified as the song 77
C33_Witness ==
    /\ clsUrl = <<NcmHost, "/", "song", "/", "7", "7">>
    /\ Head(parsers) = SongParser
    /\ clsResult = Return("SONG", <<"7", "7">>)

LastAnswer(g) == g.answers[Len(g.answers)]

\* C35: get returns every response whose status is not 429 to the caller as
\* it is, on the attempt that received it, whatever the status, without
\* another attempt, a sleep or an exception.
C35_Non429Returned ==
    /\ [][(Len(get'.answers) = Len(get.answers) + 1
             /\ LastAnswer(get')[1] \in OtherStatuses)
            => /\ get'.pc = "done"
               /\ get'.outcome = Returned(Response(LastAnswer(get')[1]))
               /\ get'.attempt = get.attempt
               /\ get'.sends = get.sends + 1
               /\ get'.slept = get.slept
               /\ now' = now]_vars
    /\ [](\A i \in 1..Len(get.answers) :
            get.answers[i][1] \in OtherStatuses
              => /\ i = Len(get.answers)
                 /\ get.pc = "done"
                 /\ get.outcome.tag = "return"
                 /\ get.outcome.value = Response(get.answers[i][1]))

\* the second attempt, made after a 429, was answered with 500 and the
\* response was returned
C35_Witness ==
    /\ get.pc = "done"
    /\ Len(get.answers) = 2
    /\ get.answers[1][1] = "429"
    /\ get.answers[2] = <<"500", None>>
    /\ get.outcome = Returned(Response("500"))
    /\ get.max_attempts = DefaultMaxAttempts

\* the last attempt of g raised an exception that is neither a client error
\* nor a timeout: one of OtherExceptions, or the ValueError of int() on a
\* Retry-After header that is not a number
RaisedOther(g) ==
    /\ g.answers # <<>>
    /\ \/ LastAnswer(g)[1] = "exception"
       \/ /\ LastAnswer(g)[1] = "429"
          /\ IntOf(HeaderOrDefault(LastAnswer(g)[2])) < 0

\* C38: an exception of an attempt that is neither an aiohttp client error nor
\* a timeout ends get at once with NcmRequestError raised from it: no further
\* attempt is sent and no backoff sleep happens, whatever attempts remain.
C38_OtherExceptionEndsCall ==
    /\ [][(Len(get'.answers) = Len(get.answers) + 1 /\ RaisedOther(get'))
            => /\ get'.pc = "failed"
               /\ get'.outcome.tag = "raise"
               /\ get'.outcome.exc.type = "NcmRequestError"
               /\ get'.from # <<>>
               /\ get'.from[1].type \in OtherExceptions \cup {"ValueError"}
               /\ get'.attempt = get.attempt
               /\ get'.slept = get.slept
               /\ now' = now]_vars
    /\ [](\A i \in 1..Len(get.answers) :
            (\/ get.answers[i][1] = "exception"
             \/ /\ get.answers[i][1] = "429"
                /\ IntOf(HeaderOrDefault(get.answers[i][2])) < 0)
              => /\ i = Len(get.answers)
                 /\ get.pc = "failed"
                 /\ get.sends = i)
    /\ [][get.pc = "failed" => get' = get]_vars

\* the first of three attempts raised RuntimeError and the call has failed
\* with NcmRequestError, two attempts unused and nothing slept
C38_Witness ==
    /\ get.pc = "failed"
    /\ get.max_attempts = DefaultMaxAttempts
    /\ get.answers = << <<"exception", None>> >>
    /\ get.from = <<Exc("RuntimeError", <<>>, {})>>
    /\ get.outcome.exc.type = "NcmRequestError"
    /\ get.sends = 1
    /\ get.slept = <<>>

\* C36: whenever parse restarts the pipeline for a short link, the url handed
\* to the restart is the re-resolved url and differs from the trimmed original
\* url of the invocation: parse never calls itself with the url it is
\* processing.
C36_RestartUrlDiffers ==
    /\ [][depth' # depth
            => /\ pc = "recheck"
               /\ IsShortLink(resource_type)
               /\ curUrl' = resolved_url
               /\ curUrl' # original_url
               /\ curUrl' # curUrl]_vars
    /\ [][(pc = "recheck" /\ resolved_url = original_url)
            => /\ depth' = depth
               /\ pc' = "failed"]_vars

\* the first invocation was given a short link and has restarted the pipeline
\* with another short link, the one the re-resolution returned
C36_Witness ==
    /\ depth = 1
    /\ pc = "start"
    /\ curUrl = ShortUrlB
    /\ Contains(strip(argUrl), ShortHost)
    /\ curUrl # strip(argUrl)

\* C37: when the classification of the resolved url fails and the resolved
\* url equals the original url, parse raises that same classification error
\* (UnsupportedUrlError or UrlParseError), with no second classification, no
\* further resolution and no aggregator call.
C37_SameUrlErrorReraised ==
    /\ [][(pc = "classifying" /\ final_url = original_url /\ ClassFails(final_url))
            => /\ pc' = "failed"
               /\ outcome' = Raised(Exc(UrlParserRegistry_parse(parsers, final_url).exc,
                                         <<>>, {}))
               /\ outcome'.exc.type \in {"UnsupportedUrlError", "UrlParseError"}
               /\ fallback_exc' = <<>>
               /\ sent' = sent
               /\ fetched' = fetched
               /\ callLog' = callLog]_vars
    /\ []((entry = "parse" /\ pc = "failed" /\ final_url # NoUrl
             /\ final_url = original_url /\ ClassFails(final_url))
            => /\ outcome.exc.cause = <<>>
               /\ outcome.exc.context = {}
               /\ fetched = <<>>
               /\ callLog = <<>>
               /\ ~ENABLED Next)

\* a page of the music host that no parser matches was given: the resolver
\* returned it as it was, and its UnsupportedUrlError was raised
C37_Witness ==
    /\ pc = "failed"
    /\ original_url = OtherPage
    /\ final_url = original_url
    /\ ResolutionsSent = 0
    /\ outcome = Raised(Exc("UnsupportedUrlError", <<>>, {}))
    /\ fetched = <<>>

\* C39: register is idempotent and order preserving: registering a class that
\* is in the registry leaves the list unchanged, and after any sequence of
\* registrations the list holds each registered class once, in ascending
\* PRIORITY, classes of equal PRIORITY in the order of their first
\* registration.
C39_RegisterIdempotentSorted ==
    /\ [](\A p \in RegisteredSet : UrlParserRegistry_register(parsers, p) = parsers)
    /\ [][regOrder' = regOrder => parsers' = parsers]_vars
    /\ []({ parsers[i] : i \in 1..Len(parsers) } = RegisteredSet)
    /\ [](\A i, j \in 1..Len(parsers) :
            i < j => /\ parsers[i] # parsers[j]
                     /\ parsers[i].PRIORITY <= parsers[j].PRIORITY
                     /\ parsers[i].PRIORITY = parsers[j].PRIORITY
                          => RegIndex(parsers[i]) < RegIndex(parsers[j]))

\* both plugin classes were registered after the built-in ones: the one of
\* smaller PRIORITY is first in the list, the one of equal PRIORITY last
C39_Witness ==
    /\ phase = "import"
    /\ Len(regOrder) = Len(BuiltinParsers) + 2
    /\ parsers = <<PluginNumberParser>> \o BuiltinParsers \o <<PluginQueryParser>>
    /\ RegIndex(PluginNumberParser) > RegIndex(SongParser)

====
